---- MODULE Spec2Model ----
(***************************************************************************)
(* Layout engine of the mosaic terminal multiplexer (src/src/screen.rs)    *)
(* and the geometric mutators of its panes                                 *)
(* (src/src/terminal_pane/terminal_pane.rs).                               *)
(*                                                                         *)
(* A pane is a record [x_coords, y_coords, display_cols, display_rows] of  *)
(* u16 values.  The arithmetic of the source is u16 arithmetic: a build    *)
(* with overflow checks panics on overflow, a build without them wraps     *)
(* modulo 2^16.  Which build runs is chosen in Init (overflow_checks).     *)
(*                                                                         *)
(* Spec is the Screen handling instructions; of each pane it keeps the     *)
(* rectangle and the dirty flag.  PaneSpec is one TerminalPane handling    *)
(* VT events, with its style register and its scroll.                      *)
(***************************************************************************)
EXTENDS Integers, Sequences, FiniteSets, TLC

\* ---------------------------------------------------------------- bounds
\* pane ids are the file descriptors 1..NumIds (a new pane's fd is never an
\* fd that is still open, so a created id is never a key of the map; an id is
\* used again once its pane is closed)
NumIds == 4
\* number of instructions handled in one run
MaxOps == 6
\* the viewport handed to Screen::new
FullScreenCols == 24
FullScreenRows == 8
\* the largest max_panes handed to Screen::new, which takes any Option<usize>:
\* None or Some(0), ..., Some(MaxMaxPanes)
MaxMaxPanes == 2
\* number of events the pane of PaneSpec handles in one run
MaxEvents == 3
\* number of pane ids of LayoutSpec, and of instructions it handles after its script
NumLayoutIds == 7
FreeOps == 3
\* number of new_pane instructions SizedSpec handles after the first
SizedOps == 2

\* ------------------------------------------------------ program constants
CURSOR_HEIGHT_WIDGH_RATIO == 4
ResizeColsCount == 10
ResizeRowsCount == 2
U16 == 65536

PaneIds == 1..NumIds
\* Option<RawFd>::None, Option<usize>::None
NoPane == 0
NoMax == -1

VARIABLES
    terminals,        \* BTreeMap<RawFd, TerminalPane>: function on a subset of PaneIds
    active_terminal,  \* Option<RawFd>
    max_panes,        \* Option<usize>, fixed by Screen::new
    overflow_checks,  \* TRUE: overflow panics; FALSE: overflow wraps
    sent,             \* PtyInstruction::ClosePane ids sent by the last instruction, in order
    status,           \* "running", or "aborted" after a panic
    last_op,          \* the last instruction handled and the state it was handled in
    ops,              \* number of instructions or events handled
    should_render,    \* the ids of the panes whose should_render flag is set
    notified,         \* the (cols, rows) of the last set_terminal_size_using_fd for each pane
    emitted,          \* the ids of the panes whose body the last instruction wrote to stdout
    pane,             \* PaneSpec: the TerminalPane that handles the events
    last_event,       \* PaneSpec: the last event handled and the pane it was handled by
    written,          \* the (pane id, byte) pairs the last instruction wrote to a tty
    script            \* LayoutSpec: the instructions still to be handled before any other

screen_vars == <<terminals, active_terminal, max_panes, sent, last_op,
                 should_render, notified, emitted, written, script>>
pane_vars == <<pane, last_event>>
vars == <<terminals, active_terminal, max_panes, overflow_checks, sent, status, last_op, ops,
          should_render, notified, emitted, pane, last_event, written, script>>

\* --------------------------------------------------------- u16 arithmetic
Add16(a, b) == (a + b) % U16
Sub16(a, b) == (a - b + U16) % U16
\* wrapping_mul, by bytes of a so that no intermediate product leaves 32 bits
Mul16(a, b) == ((a % 256) * b + (((a \div 256) * b) % 256) * 256) % U16
AddOvf(a, b) == a + b >= U16
SubOvf(a, b) == a < b
MulOvf(a, b) == a /= 0 /\ b > (U16 - 1) \div a

Min(S) == CHOOSE a \in S : \A b \in S : a <= b

RECURSIVE SortIds(_)
\* the keys of a set of panes in BTreeMap order
SortIds(S) == IF S = {} THEN <<>> ELSE <<Min(S)>> \o SortIds(S \ {Min(S)})

RECURSIVE SortBy(_, _)
\* Vec::sort_by (stable) of a Vec in BTreeMap order, k the sort key of each id
SortBy(S, k) ==
    IF S = {} THEN <<>>
    ELSE LET m == CHOOSE a \in S : \A b \in S : k[a] < k[b] \/ (k[a] = k[b] /\ a <= b)
         IN  <<m>> \o SortBy(S \ {m}, k)

SeqSet(s) == {s[i] : i \in 1..Len(s)}

Pane(x, y, cols, rows) ==
    [x_coords |-> x, y_coords |-> y, display_cols |-> cols, display_rows |-> rows]

Ids(T) == DOMAIN T
Right(p) == Add16(p.x_coords, p.display_cols)
Bottom(p) == Add16(p.y_coords, p.display_rows)

\* ------------------------------------------------------ split half sizes
\* the two widths; ovf: ws_col - 1 overflowed
split_vertically_with_gap(cols) ==
    LET width_of_each_half == Sub16(cols, 1) \div 2
    IN  [first  |-> IF cols % 2 = 0 THEN Add16(width_of_each_half, 1) ELSE width_of_each_half,
         second |-> width_of_each_half,
         ovf    |-> SubOvf(cols, 1)]

split_horizontally_with_gap(rows) ==
    LET height_of_each_half == Sub16(rows, 1) \div 2
    IN  [first  |-> IF rows % 2 = 0 THEN Add16(height_of_each_half, 1) ELSE height_of_each_half,
         second |-> height_of_each_half,
         ovf    |-> SubOvf(rows, 1)]

\* ------------------------------------------------------ adjacency queries
\* Option<Vec<RawFd>>: None is the empty sequence (Some is never empty)
terminal_ids_directly_left_of(T, id) ==
    IF T[id].x_coords = 0 THEN <<>>
    ELSE SortIds({p \in Ids(T) : Right(T[p]) = T[id].x_coords - 1})

terminal_ids_directly_right_of(T, id) ==
    SortIds({p \in Ids(T) : T[p].x_coords = Add16(Right(T[id]), 1)})

terminal_ids_directly_below(T, id) ==
    SortIds({p \in Ids(T) : T[p].y_coords = Add16(Bottom(T[id]), 1)})

terminal_ids_directly_above(T, id) ==
    SortIds({p \in Ids(T) : Add16(Bottom(T[p]), 1) = T[id].y_coords})

panes_top_aligned_with_pane(T, id) ==
    {p \in Ids(T) : p /= id /\ T[p].y_coords = T[id].y_coords}

panes_bottom_aligned_with_pane(T, id) ==
    {p \in Ids(T) : p /= id /\ Bottom(T[p]) = Bottom(T[id])}

panes_right_aligned_with_pane(T, id) ==
    {p \in Ids(T) : p /= id /\ Right(T[p]) = Right(T[id])}

panes_left_aligned_with_pane(T, id) ==
    {p \in Ids(T) : p /= id /\ T[p].x_coords = T[id].x_coords}

\* ------------------------------------------------- contiguous aligned strips
RECURSIVE WalkBefore(_, _, _, _, _)
\* the loop "for terminal in aligned { if terminal ends right before last { push } }"
\* over a Vec sorted by descending position; last is the pane itself at first
WalkBefore(sorted, pos, len, id, acc) ==
    IF sorted = <<>> THEN acc
    ELSE LET t == Head(sorted)
             last == IF acc = <<>> THEN id ELSE acc[Len(acc)]
         IN  WalkBefore(Tail(sorted), pos, len, id,
                 IF Add16(Add16(pos[t], len[t]), 1) = pos[last] THEN Append(acc, t) ELSE acc)

RECURSIVE WalkAfter(_, _, _, _, _)
\* the same loop over a Vec sorted by ascending position: push what starts right after last
WalkAfter(sorted, pos, len, id, acc) ==
    IF sorted = <<>> THEN acc
    ELSE LET t == Head(sorted)
             last == IF acc = <<>> THEN id ELSE acc[Len(acc)]
         IN  WalkAfter(Tail(sorted), pos, len, id,
                 IF pos[t] = Add16(Add16(pos[last], len[last]), 1) THEN Append(acc, t) ELSE acc)

RECURSIVE BorderBefore(_, _, _, _, _)
\* the loop that moves top_resize_border / left_resize_border, starting from 0
BorderBefore(strip, pos, len, borders, border) ==
    IF strip = <<>> THEN border
    ELSE LET boundary == Add16(pos[Head(strip)], len[Head(strip)])
         IN  BorderBefore(Tail(strip), pos, len, borders,
                 IF Add16(boundary, 1) \in borders /\ border < boundary
                 THEN Add16(boundary, 1) ELSE border)

RECURSIVE BorderAfter(_, _, _, _)
\* the loop that moves bottom_resize_border / right_resize_border, starting from the viewport size
BorderAfter(strip, pos, borders, border) ==
    IF strip = <<>> THEN border
    ELSE LET boundary == pos[Head(strip)]
         IN  BorderAfter(Tail(strip), pos, borders,
                 IF boundary \in borders /\ boundary < border THEN boundary ELSE border)

\* BorderAndPaneIds of the four "above"/"to the left" helpers
ContiguousBefore(aligned, pos, len, id, borders) ==
    LET strip == WalkBefore(SortBy(aligned, [t \in aligned |-> 0 - pos[t]]), pos, len, id, <<>>)
        resize_border == BorderBefore(strip, pos, len, borders, 0)
        Keep(t) == pos[t] >= resize_border
        kept == SelectSeq(strip, Keep)
    IN  [border |-> IF kept = <<>> THEN pos[id] ELSE resize_border, ids |-> kept]

\* BorderAndPaneIds of the four "below"/"to the right" helpers
ContiguousAfter(aligned, pos, len, id, borders, full) ==
    LET strip == WalkAfter(SortBy(aligned, [t \in aligned |-> pos[t]]), pos, len, id, <<>>)
        resize_border == BorderAfter(strip, pos, borders, full)
        Keep(t) == Add16(pos[t], len[t]) <= resize_border
        kept == SelectSeq(strip, Keep)
    IN  [border |-> IF kept = <<>> THEN Add16(pos[id], len[id]) ELSE resize_border, ids |-> kept]

XOf(T) == [t \in Ids(T) |-> T[t].x_coords]
YOf(T) == [t \in Ids(T) |-> T[t].y_coords]
ColsOf(T) == [t \in Ids(T) |-> T[t].display_cols]
RowsOf(T) == [t \in Ids(T) |-> T[t].display_rows]

right_aligned_contiguous_panes_above(T, id, terminal_borders_to_the_right) ==
    ContiguousBefore(panes_right_aligned_with_pane(T, id), YOf(T), RowsOf(T), id,
                     terminal_borders_to_the_right)

right_aligned_contiguous_panes_below(T, id, terminal_borders_to_the_right) ==
    ContiguousAfter(panes_right_aligned_with_pane(T, id), YOf(T), RowsOf(T), id,
                    terminal_borders_to_the_right, FullScreenRows)

left_aligned_contiguous_panes_above(T, id, terminal_borders_to_the_left) ==
    ContiguousBefore(panes_left_aligned_with_pane(T, id), YOf(T), RowsOf(T), id,
                     terminal_borders_to_the_left)

left_aligned_contiguous_panes_below(T, id, terminal_borders_to_the_left) ==
    ContiguousAfter(panes_left_aligned_with_pane(T, id), YOf(T), RowsOf(T), id,
                    terminal_borders_to_the_left, FullScreenRows)

top_aligned_contiguous_panes_to_the_left(T, id, terminal_borders_above) ==
    ContiguousBefore(panes_top_aligned_with_pane(T, id), XOf(T), ColsOf(T), id,
                     terminal_borders_above)

top_aligned_contiguous_panes_to_the_right(T, id, terminal_borders_above) ==
    ContiguousAfter(panes_top_aligned_with_pane(T, id), XOf(T), ColsOf(T), id,
                    terminal_borders_above, FullScreenCols)

bottom_aligned_contiguous_panes_to_the_left(T, id, terminal_borders_below) ==
    ContiguousBefore(panes_bottom_aligned_with_pane(T, id), XOf(T), ColsOf(T), id,
                     terminal_borders_below)

bottom_aligned_contiguous_panes_to_the_right(T, id, terminal_borders_below) ==
    ContiguousAfter(panes_bottom_aligned_with_pane(T, id), XOf(T), ColsOf(T), id,
                    terminal_borders_below, FullScreenCols)

pane_is_between_vertical_borders(T, id, left_border_x, right_border_x) ==
    T[id].x_coords >= left_border_x /\ Right(T[id]) <= right_border_x

pane_is_between_horizontal_borders(T, id, top_border_y, bottom_border_y) ==
    T[id].y_coords >= top_border_y /\ Bottom(T[id]) <= bottom_border_y

\* ------------------------------------------- TerminalPane geometric mutators
\* each returns the pane and whether its u16 arithmetic overflowed
\* reduce_width_right without "self.x_coords += count"
reduce_width_right_keeping_x(p, count) ==
    [p   |-> [p EXCEPT !.display_cols = Sub16(@, count)],
     ovf |-> AddOvf(p.x_coords, count) \/ SubOvf(p.display_cols, count)]

reduce_width_right(p, count) ==
    [p   |-> [p EXCEPT !.x_coords = Add16(@, count), !.display_cols = Sub16(@, count)],
     ovf |-> AddOvf(p.x_coords, count) \/ SubOvf(p.display_cols, count)]

reduce_width_left(p, count) ==
    [p   |-> [p EXCEPT !.display_cols = Sub16(@, count)],
     ovf |-> SubOvf(p.display_cols, count)]

\* increase_width_left without "self.x_coords -= count"
increase_width_left_keeping_x(p, count) ==
    [p   |-> [p EXCEPT !.display_cols = Add16(@, count)],
     ovf |-> SubOvf(p.x_coords, count) \/ AddOvf(p.display_cols, count)]

increase_width_left(p, count) ==
    [p   |-> [p EXCEPT !.x_coords = Sub16(@, count), !.display_cols = Add16(@, count)],
     ovf |-> SubOvf(p.x_coords, count) \/ AddOvf(p.display_cols, count)]

increase_width_right(p, count) ==
    [p   |-> [p EXCEPT !.display_cols = Add16(@, count)],
     ovf |-> AddOvf(p.display_cols, count)]

reduce_height_down(p, count) ==
    [p   |-> [p EXCEPT !.y_coords = Add16(@, count), !.display_rows = Sub16(@, count)],
     ovf |-> AddOvf(p.y_coords, count) \/ SubOvf(p.display_rows, count)]

increase_height_down(p, count) ==
    [p   |-> [p EXCEPT !.display_rows = Add16(@, count)],
     ovf |-> AddOvf(p.display_rows, count)]

increase_height_up(p, count) ==
    [p   |-> [p EXCEPT !.y_coords = Sub16(@, count), !.display_rows = Add16(@, count)],
     ovf |-> SubOvf(p.y_coords, count) \/ AddOvf(p.display_rows, count)]

reduce_height_up(p, count) ==
    [p   |-> [p EXCEPT !.display_rows = Sub16(@, count)],
     ovf |-> SubOvf(p.display_rows, count)]

\* ------------------------------------------------- character styles, scroll
\* Option<AnsiCode>: None, Some(Reset), Some(NamedColor(c)), Some(Code((a, b)));
\* the params of a Code are its Some values: <<>>, <<a>> or <<a, b>>
NoCode == [tag |-> "None", color |-> "", params |-> <<>>]
Reset == [tag |-> "Reset", color |-> "", params |-> <<>>]
NamedColor(c) == [tag |-> "NamedColor", color |-> c, params |-> <<>>]
Code(ps) == [tag |-> "Code", color |-> "", params |-> ps]

StyleFields == {"foreground", "background", "bold", "dim", "italic", "underline",
                "blink_slow", "blink_fast", "reverse", "hidden", "strike"}

\* CharacterStyles::new(), clear(): every field None
NewStyles == [f \in StyleFields |-> NoCode]
clear(styles) == [f \in StyleFields |-> NoCode]
\* CharacterStyles::reset_all(): every field Some(Reset)
reset_all(styles) == [f \in StyleFields |-> Reset]
\* the builders foreground(code), background(code), bold(code), ...
WithStyle(styles, field, code) == [styles EXCEPT ![field] = code]

\* Scroll: the cursor on screen, the characters added, the canonical lines
\* added, the scroll region (<<>> when not set) and the number of clears,
\* deletions and insertions made in the grid
NewScroll ==
    [cursor_x |-> 0, cursor_y |-> 0, characters |-> <<>>, canonical_lines |-> 0,
     scroll_region |-> <<>>, edits |-> 0]

ClampTo(n, size) == IF n < size THEN n ELSE IF size = 0 THEN 0 ELSE size - 1

\* the cursor operations clamp to the viewport of cols x rows cells
move_cursor_to(scroll, row, col, cols, rows) ==
    [scroll EXCEPT !.cursor_x = ClampTo(col, cols), !.cursor_y = ClampTo(row, rows)]
move_cursor_forward(scroll, n, cols) ==
    [scroll EXCEPT !.cursor_x = ClampTo(@ + n, cols)]
move_cursor_back(scroll, n) ==
    [scroll EXCEPT !.cursor_x = IF @ < n THEN 0 ELSE @ - n]
move_cursor_backwards(scroll, n) ==
    [scroll EXCEPT !.cursor_x = IF @ < n THEN 0 ELSE @ - n]
move_cursor_up(scroll, n) ==
    [scroll EXCEPT !.cursor_y = IF @ < n THEN 0 ELSE @ - n]
move_cursor_to_beginning_of_canonical_line(scroll) == [scroll EXCEPT !.cursor_x = 0]

\* writes at the cursor and advances it, wrapping at cols into a continuation line
add_character(scroll, terminal_character, cols, rows) ==
    [scroll EXCEPT !.characters = Append(@, terminal_character),
                   !.cursor_x = IF scroll.cursor_x + 1 < cols THEN scroll.cursor_x + 1 ELSE 0,
                   !.cursor_y = IF scroll.cursor_x + 1 < cols THEN @ ELSE ClampTo(@ + 1, rows)]

\* ends the canonical line and puts the cursor on a fresh line
add_canonical_line(scroll, rows) ==
    [scroll EXCEPT !.canonical_lines = @ + 1, !.cursor_x = 0,
                   !.cursor_y = ClampTo(@ + 1, rows)]

\* clear_canonical_line_right_of_cursor, clear_all_after_cursor, clear_all,
\* delete_lines_in_scroll_region, add_empty_lines_in_scroll_region
EditGrid(scroll) == [scroll EXCEPT !.edits = @ + 1]
\* the region is 1-indexed and inclusive, as received from CSI r
EditInRegion(scroll) ==
    IF /\ scroll.scroll_region /= <<>>
       /\ scroll.scroll_region[1] <= scroll.cursor_y + 1
       /\ scroll.cursor_y + 1 <= scroll.scroll_region[2]
    THEN EditGrid(scroll) ELSE scroll
set_scroll_region(scroll, top, bottom) == [scroll EXCEPT !.scroll_region = <<top, bottom>>]
clear_scroll_region(scroll) == [scroll EXCEPT !.scroll_region = <<>>]

\* -------------------------------------------------------------- VteEvent
VteEvent(kind, byte, params, c) == [kind |-> kind, byte |-> byte, params |-> params, c |-> c]
VtePrint(c) == VteEvent("Print", 0, <<>>, c)
VteExecute(byte) == VteEvent("Execute", byte, <<>>, "")
VteCsiDispatch(params, c) == VteEvent("CsiDispatch", 0, params, c)
IgnoredKinds == {"Hook", "Put", "Unhook", "OscDispatch", "EscDispatch"}

\* ---------------------------------------------------- TerminalPane, events
\* P is a TerminalPane while an event is handled: its dirty flag, its style
\* register, its scroll and its size; panic: an index or panic! failed,
\* ovf: usize arithmetic overflowed
NewTerminalPane(cols, rows) ==
    [should_render |-> TRUE, pending_styles |-> NewStyles, scroll |-> NewScroll,
     display_cols |-> cols, display_rows |-> rows, panic |-> FALSE, ovf |-> FALSE]

PanePanic(P) == [P EXCEPT !.panic = TRUE]

\* "x as usize - 1": in a build without overflow checks 0 - 1 is usize::MAX,
\* which stands here as UsizeMax
UsizeMax == 2147483647
UsizeMinusOne(x) == IF x = 0 THEN UsizeMax ELSE x - 1

print(P, c) ==
    LET terminal_character == [character |-> c, styles |-> P.pending_styles]
    IN  [P EXCEPT !.scroll = add_character(@, terminal_character, P.display_cols, P.display_rows)]

reset_all_ansi_codes(P) == [P EXCEPT !.pending_styles = clear(@)]

\* add_newline without reset_all_ansi_codes
add_newline_keeping_styles(P) ==
    [P EXCEPT !.scroll = add_canonical_line(@, P.display_rows), !.should_render = TRUE]

add_newline(P) ==
    [reset_all_ansi_codes([P EXCEPT !.scroll = add_canonical_line(@, P.display_rows)])
        EXCEPT !.should_render = TRUE]

execute(P, byte) ==
    IF byte = 13 THEN [P EXCEPT !.scroll = move_cursor_to_beginning_of_canonical_line(@)]
    ELSE IF byte = 8 THEN [P EXCEPT !.scroll = move_cursor_backwards(@, 1)]
    ELSE IF byte = 10 THEN add_newline(P)
    ELSE P

\* AnsiCode::Code((params.get(1), params.get(2))) with "as u16"
CodeOfTail(params) ==
    IF Len(params) >= 3 THEN Code(<<params[2] % U16, params[3] % U16>>)
    ELSE IF Len(params) = 2 THEN Code(<<params[2] % U16>>)
    ELSE Code(<<>>)

\* the named colours with every colour taken for Black
SelectNamedColorAllBlack(styles, p) ==
    IF p \in 30..37 THEN WithStyle(styles, "foreground", NamedColor("Black"))
    ELSE IF p \in 40..47 THEN WithStyle(styles, "background", NamedColor("Black"))
    ELSE styles

\* the branches "params[0] == 30" to "params[0] == 47" of csi_dispatch, and its
\* last branch, which only logs
SelectNamedColor(styles, p) ==
    IF p = 30 THEN WithStyle(styles, "foreground", NamedColor("Black"))
    ELSE IF p = 31 THEN WithStyle(styles, "foreground", NamedColor("Red"))
    ELSE IF p = 32 THEN WithStyle(styles, "foreground", NamedColor("Green"))
    ELSE IF p = 33 THEN WithStyle(styles, "foreground", NamedColor("Yellow"))
    ELSE IF p = 34 THEN WithStyle(styles, "foreground", NamedColor("Blue"))
    ELSE IF p = 35 THEN WithStyle(styles, "foreground", NamedColor("Magenta"))
    ELSE IF p = 36 THEN WithStyle(styles, "foreground", NamedColor("Cyan"))
    ELSE IF p = 37 THEN WithStyle(styles, "foreground", NamedColor("White"))
    ELSE IF p = 40 THEN WithStyle(styles, "background", NamedColor("Black"))
    ELSE IF p = 41 THEN WithStyle(styles, "background", NamedColor("Red"))
    ELSE IF p = 42 THEN WithStyle(styles, "background", NamedColor("Green"))
    ELSE IF p = 43 THEN WithStyle(styles, "background", NamedColor("Yellow"))
    ELSE IF p = 44 THEN WithStyle(styles, "background", NamedColor("Blue"))
    ELSE IF p = 45 THEN WithStyle(styles, "background", NamedColor("Magenta"))
    ELSE IF p = 46 THEN WithStyle(styles, "background", NamedColor("Cyan"))
    ELSE IF p = 47 THEN WithStyle(styles, "background", NamedColor("White"))
    ELSE styles

\* the branch "c == 'm'" of csi_dispatch
SelectGraphicRendition(styles, params) ==
    LET p == IF params = <<>> THEN 0 ELSE params[1]
    IN  IF params = <<>> \/ p = 0 THEN reset_all(styles)
        ELSE IF p = 39 THEN WithStyle(styles, "foreground", Reset)
        ELSE IF p = 49 THEN WithStyle(styles, "background", Reset)
        ELSE IF p = 21 THEN WithStyle(styles, "bold", Reset)
        ELSE IF p = 22 THEN WithStyle(WithStyle(styles, "bold", Reset), "dim", Reset)
        ELSE IF p = 23 THEN WithStyle(styles, "italic", Reset)
        ELSE IF p = 24 THEN WithStyle(styles, "underline", Reset)
        ELSE IF p = 25 THEN WithStyle(WithStyle(styles, "blink_slow", Reset), "blink_fast", Reset)
        ELSE IF p = 27 THEN WithStyle(styles, "reverse", Reset)
        ELSE IF p = 28 THEN WithStyle(styles, "hidden", Reset)
        ELSE IF p = 29 THEN WithStyle(styles, "strike", Reset)
        ELSE IF p = 38 THEN WithStyle(styles, "foreground", CodeOfTail(params))
        ELSE IF p = 48 THEN WithStyle(styles, "background", CodeOfTail(params))
        ELSE IF p = 1 THEN WithStyle(styles, "bold", CodeOfTail(params))
        ELSE IF p = 2 THEN WithStyle(styles, "dim", CodeOfTail(params))
        ELSE IF p = 3 THEN WithStyle(styles, "italic", CodeOfTail(params))
        ELSE IF p = 4 THEN WithStyle(styles, "underline", CodeOfTail(params))
        ELSE IF p = 5 THEN WithStyle(styles, "blink_slow", CodeOfTail(params))
        ELSE IF p = 6 THEN WithStyle(styles, "blink_fast", CodeOfTail(params))
        ELSE IF p = 7 THEN WithStyle(styles, "reverse", CodeOfTail(params))
        ELSE IF p = 8 THEN WithStyle(styles, "hidden", CodeOfTail(params))
        ELSE IF p = 9 THEN WithStyle(styles, "strike", CodeOfTail(params))
        ELSE SelectNamedColor(styles, p)

\* the branch "c == 'H'" of csi_dispatch: goto row/col
GotoRowCol(P, params) ==
    IF Len(params) = 1
    THEN [P EXCEPT !.scroll = move_cursor_to(@, params[1], 0, P.display_cols, P.display_rows)]
    ELSE IF params = <<>> THEN PanePanic(P)
    ELSE [P EXCEPT !.scroll = move_cursor_to(@, UsizeMinusOne(params[1]), UsizeMinusOne(params[2]),
                                             P.display_cols, P.display_rows),
                   !.ovf = @ \/ params[1] = 0 \/ params[2] = 0]

\* "if params[0] == 0 { 1 } else { params[0] }"
OneIfZero(n) == IF n = 0 THEN 1 ELSE n

\* csi_dispatch treating every final it does not know as one it ignores
csi_dispatch_ignoring_unknown(P, params, c) ==
    IF c = "m" THEN [P EXCEPT !.pending_styles = SelectGraphicRendition(@, params)]
    \* params[0] of an empty list is an index out of bounds
    ELSE IF c \in {"C", "K", "J", "A", "D", "M", "L"} /\ params = <<>> THEN PanePanic(P)
    ELSE IF c = "C" THEN [P EXCEPT !.scroll = move_cursor_forward(@, params[1], P.display_cols)]
    ELSE IF c = "K" THEN (IF params[1] = 0 THEN [P EXCEPT !.scroll = EditGrid(@)] ELSE P)
    ELSE IF c = "J" THEN (IF params[1] = 0 \/ params[1] = 2 THEN [P EXCEPT !.scroll = EditGrid(@)] ELSE P)
    ELSE IF c = "H" THEN GotoRowCol(P, params)
    ELSE IF c = "A" THEN [P EXCEPT !.scroll = move_cursor_up(@, OneIfZero(params[1]))]
    ELSE IF c = "D" THEN [P EXCEPT !.scroll = move_cursor_back(@, OneIfZero(params[1]))]
    ELSE IF c = "r" THEN (IF Len(params) > 1
                          THEN [P EXCEPT !.scroll = set_scroll_region(@, params[1], params[2])]
                          ELSE [P EXCEPT !.scroll = clear_scroll_region(@)])
    ELSE IF c \in {"M", "L"} THEN [P EXCEPT !.scroll = EditInRegion(@)]
    ELSE P

csi_dispatch(P, params, c) ==
    IF c = "m" THEN [P EXCEPT !.pending_styles = SelectGraphicRendition(@, params)]
    \* params[0] of an empty list is an index out of bounds
    ELSE IF c \in {"C", "K", "J", "A", "D", "M", "L"} /\ params = <<>> THEN PanePanic(P)
    ELSE IF c = "C" THEN [P EXCEPT !.scroll = move_cursor_forward(@, params[1], P.display_cols)]
    ELSE IF c = "K" THEN (IF params[1] = 0 THEN [P EXCEPT !.scroll = EditGrid(@)] ELSE P)
    ELSE IF c = "J" THEN (IF params[1] = 0 \/ params[1] = 2 THEN [P EXCEPT !.scroll = EditGrid(@)] ELSE P)
    ELSE IF c = "H" THEN GotoRowCol(P, params)
    ELSE IF c = "A" THEN [P EXCEPT !.scroll = move_cursor_up(@, OneIfZero(params[1]))]
    ELSE IF c = "D" THEN [P EXCEPT !.scroll = move_cursor_back(@, OneIfZero(params[1]))]
    ELSE IF c \in {"l", "h"} THEN P
    ELSE IF c = "r" THEN (IF Len(params) > 1
                          THEN [P EXCEPT !.scroll = set_scroll_region(@, params[1], params[2])]
                          ELSE [P EXCEPT !.scroll = clear_scroll_region(@)])
    ELSE IF c \in {"t", "n", "c"} THEN P
    ELSE IF c \in {"M", "L"} THEN [P EXCEPT !.scroll = EditInRegion(@)]
    ELSE IF c \in {"q", "d", "X", "G"} THEN P
    ELSE PanePanic(P)

handle_event(P, event) ==
    IF event.kind = "Print" THEN [print(P, event.c) EXCEPT !.should_render = TRUE]
    ELSE IF event.kind = "Execute" THEN execute(P, event.byte)
    ELSE IF event.kind = "CsiDispatch" THEN csi_dispatch(P, event.params, event.c)
    ELSE P

\* buffer_as_vte_output that leaves the dirty flag set
buffer_as_vte_output_keeping_flag(P) ==
    IF P.should_render THEN [pane |-> P, some |-> TRUE] ELSE [pane |-> P, some |-> FALSE]

\* buffer_as_vte_output: some: a body was returned
buffer_as_vte_output(P) ==
    IF P.should_render
    THEN [pane |-> [P EXCEPT !.should_render = FALSE], some |-> TRUE]
    ELSE [pane |-> P, some |-> FALSE]

\* ------------------------------------------------ Screen's pane mutators
\* S is the Screen while an instruction is handled:
\*   t the pane map, active the focus, sent the ClosePane ids sent so far,
\*   dirty the ids of the panes whose should_render flag is set,
\*   size the (cols, rows) last sent to each pane, emitted the panes whose
\*   body was written to stdout, written the (id, byte) pairs written to a tty,
\*   ovf: some integer operation overflowed, panic: an unwrap/expect failed

\* os_api.set_terminal_size_using_fd(id, cols, rows)
set_terminal_size_using_fd(S, id, cols, rows) ==
    [S EXCEPT !.size = (id :> <<cols, rows>>) @@ @]

\* "self.should_render = true" of the pane id
SetShouldRender(S, id) == [S EXCEPT !.dirty = @ \cup {id}]

\* Mutated without "self.should_render = true"
MutatedLeavingClean(S, id, r) ==
    set_terminal_size_using_fd([S EXCEPT !.t[id] = r.p, !.ovf = S.ovf \/ r.ovf],
                               id, r.p.display_cols, r.p.display_rows)

\* Mutated telling the pane the size it had before
MutatedNotifyingOldSize(S, id, r) ==
    set_terminal_size_using_fd(SetShouldRender([S EXCEPT !.t[id] = r.p, !.ovf = S.ovf \/ r.ovf], id),
                               id, S.t[id].display_cols, S.t[id].display_rows)

\* a mutator of the pane id, which sets its flag, and the size notification after it
Mutated(S, id, r) ==
    set_terminal_size_using_fd(SetShouldRender([S EXCEPT !.t[id] = r.p, !.ovf = S.ovf \/ r.ovf], id),
                               id, r.p.display_cols, r.p.display_rows)

\* the TerminalPane of id as far as the Screen model keeps it: its size and flag
PaneOf(S, id) ==
    [NewTerminalPane(S.t[id].display_cols, S.t[id].display_rows)
        EXCEPT !.should_render = id \in S.dirty]

\* self.terminals.remove(&id); the sizes sent to a removed pane are dropped,
\* a pane created with its id later is told its size when it is created
Remove(S, id) ==
    [S EXCEPT !.t = [t \in Ids(S.t) \ {id} |-> S.t[t]],
              !.dirty = @ \ {id},
              !.size = [t \in DOMAIN S.size \ {id} |-> S.size[t]]]

reduce_pane_height_down(S, id, count) == Mutated(S, id, reduce_height_down(S.t[id], count))
reduce_pane_height_up(S, id, count) == Mutated(S, id, reduce_height_up(S.t[id], count))
increase_pane_height_down(S, id, count) == Mutated(S, id, increase_height_down(S.t[id], count))
increase_pane_height_up(S, id, count) == Mutated(S, id, increase_height_up(S.t[id], count))
increase_pane_width_right(S, id, count) == Mutated(S, id, increase_width_right(S.t[id], count))
increase_pane_width_left(S, id, count) == Mutated(S, id, increase_width_left(S.t[id], count))
reduce_pane_width_right(S, id, count) == Mutated(S, id, reduce_width_right(S.t[id], count))
reduce_pane_width_left(S, id, count) == Mutated(S, id, reduce_width_left(S.t[id], count))

\* one of the eight mutators, by name
MutatePane(S, id, how, count) ==
    CASE how = "reduce_height_down"   -> reduce_pane_height_down(S, id, count)
      [] how = "reduce_height_up"     -> reduce_pane_height_up(S, id, count)
      [] how = "increase_height_down" -> increase_pane_height_down(S, id, count)
      [] how = "increase_height_up"   -> increase_pane_height_up(S, id, count)
      [] how = "increase_width_right" -> increase_pane_width_right(S, id, count)
      [] how = "increase_width_left"  -> increase_pane_width_left(S, id, count)
      [] how = "reduce_width_right"   -> reduce_pane_width_right(S, id, count)
      [] how = "reduce_width_left"    -> reduce_pane_width_left(S, id, count)

RECURSIVE ForEach(_, _, _, _)
\* "for terminal_id in ids { self.<how>(&terminal_id, count) }"
ForEach(S, ids, how, count) ==
    IF ids = <<>> THEN S
    ELSE ForEach(MutatePane(S, Head(ids), how, count), Tail(ids), how, count)

\* ------------------------------------------------ the surroundings algorithm
Panic(S) == [S EXCEPT !.panic = TRUE]

\* reduce_pane_and_surroundings_up without the loop over the two strips
reduce_pane_and_surroundings_up_leaving_strips(S, id, count) ==
    LET T == S.t
        all_below == terminal_ids_directly_below(T, id)
        terminal_borders_below == {T[t].x_coords : t \in SeqSet(all_below)}
        left == bottom_aligned_contiguous_panes_to_the_left(T, id, terminal_borders_below)
        right == bottom_aligned_contiguous_panes_to_the_right(T, id, terminal_borders_below)
        Keep(t) == pane_is_between_vertical_borders(T, t, left.border, right.border)
        terminals_below == SelectSeq(all_below, Keep)
    IN  IF all_below = <<>> THEN Panic(S)
        ELSE ForEach(reduce_pane_height_up(S, id, count),
                     terminals_below, "increase_height_up", count)

reduce_pane_and_surroundings_up(S, id, count) ==
    LET T == S.t
        all_below == terminal_ids_directly_below(T, id)
        terminal_borders_below == {T[t].x_coords : t \in SeqSet(all_below)}
        left == bottom_aligned_contiguous_panes_to_the_left(T, id, terminal_borders_below)
        right == bottom_aligned_contiguous_panes_to_the_right(T, id, terminal_borders_below)
        Keep(t) == pane_is_between_vertical_borders(T, t, left.border, right.border)
        terminals_below == SelectSeq(all_below, Keep)
    IN  IF all_below = <<>> THEN Panic(S)
        ELSE ForEach(ForEach(reduce_pane_height_up(S, id, count),
                             terminals_below, "increase_height_up", count),
                     left.ids \o right.ids, "reduce_height_up", count)

reduce_pane_and_surroundings_down(S, id, count) ==
    LET T == S.t
        all_above == terminal_ids_directly_above(T, id)
        terminal_borders_above == {T[t].x_coords : t \in SeqSet(all_above)}
        left == top_aligned_contiguous_panes_to_the_left(T, id, terminal_borders_above)
        right == top_aligned_contiguous_panes_to_the_right(T, id, terminal_borders_above)
        Keep(t) == pane_is_between_vertical_borders(T, t, left.border, right.border)
        terminals_above == SelectSeq(all_above, Keep)
    IN  IF all_above = <<>> THEN Panic(S)
        ELSE ForEach(ForEach(reduce_pane_height_down(S, id, count),
                             terminals_above, "increase_height_down", count),
                     left.ids \o right.ids, "reduce_height_down", count)

reduce_pane_and_surroundings_right(S, id, count) ==
    LET T == S.t
        all_left == terminal_ids_directly_left_of(T, id)
        terminal_borders_to_the_left == {T[t].y_coords : t \in SeqSet(all_left)}
        above == left_aligned_contiguous_panes_above(T, id, terminal_borders_to_the_left)
        below == left_aligned_contiguous_panes_below(T, id, terminal_borders_to_the_left)
        Keep(t) == pane_is_between_horizontal_borders(T, t, above.border, below.border)
        terminals_to_the_left == SelectSeq(all_left, Keep)
    IN  IF all_left = <<>> THEN Panic(S)
        ELSE ForEach(ForEach(reduce_pane_width_right(S, id, count),
                             terminals_to_the_left, "increase_width_right", count),
                     above.ids \o below.ids, "reduce_width_right", count)

reduce_pane_and_surroundings_left(S, id, count) ==
    LET T == S.t
        all_right == terminal_ids_directly_right_of(T, id)
        terminal_borders_to_the_right == {T[t].y_coords : t \in SeqSet(all_right)}
        above == right_aligned_contiguous_panes_above(T, id, terminal_borders_to_the_right)
        below == right_aligned_contiguous_panes_below(T, id, terminal_borders_to_the_right)
        Keep(t) == pane_is_between_horizontal_borders(T, t, above.border, below.border)
        terminals_to_the_right == SelectSeq(all_right, Keep)
    IN  IF all_right = <<>> THEN Panic(S)
        ELSE ForEach(ForEach(reduce_pane_width_left(S, id, count),
                             terminals_to_the_right, "increase_width_left", count),
                     above.ids \o below.ids, "reduce_width_left", count)

increase_pane_and_surroundings_up(S, id, count) ==
    LET T == S.t
        all_above == terminal_ids_directly_above(T, id)
        terminal_borders_above == {T[t].x_coords : t \in SeqSet(all_above)}
        left == top_aligned_contiguous_panes_to_the_left(T, id, terminal_borders_above)
        right == top_aligned_contiguous_panes_to_the_right(T, id, terminal_borders_above)
        Keep(t) == pane_is_between_vertical_borders(T, t, left.border, right.border)
        terminals_above == SelectSeq(all_above, Keep)
    IN  IF all_above = <<>> THEN Panic(S)
        ELSE ForEach(ForEach(increase_pane_height_up(S, id, count),
                             terminals_above, "reduce_height_up", count),
                     left.ids \o right.ids, "increase_height_up", count)

increase_pane_and_surroundings_down(S, id, count) ==
    LET T == S.t
        all_below == terminal_ids_directly_below(T, id)
        terminal_borders_below == {T[t].x_coords : t \in SeqSet(all_below)}
        left == bottom_aligned_contiguous_panes_to_the_left(T, id, terminal_borders_below)
        right == bottom_aligned_contiguous_panes_to_the_right(T, id, terminal_borders_below)
        Keep(t) == pane_is_between_vertical_borders(T, t, left.border, right.border)
        terminals_below == SelectSeq(all_below, Keep)
    IN  IF all_below = <<>> THEN Panic(S)
        ELSE ForEach(ForEach(increase_pane_height_down(S, id, count),
                             terminals_below, "reduce_height_down", count),
                     left.ids \o right.ids, "increase_height_down", count)

increase_pane_and_surroundings_right(S, id, count) ==
    LET T == S.t
        all_right == terminal_ids_directly_right_of(T, id)
        terminal_borders_to_the_right == {T[t].y_coords : t \in SeqSet(all_right)}
        above == right_aligned_contiguous_panes_above(T, id, terminal_borders_to_the_right)
        below == right_aligned_contiguous_panes_below(T, id, terminal_borders_to_the_right)
        Keep(t) == pane_is_between_horizontal_borders(T, t, above.border, below.border)
        terminals_to_the_right == SelectSeq(all_right, Keep)
    IN  IF all_right = <<>> THEN Panic(S)
        ELSE ForEach(ForEach(increase_pane_width_right(S, id, count),
                             terminals_to_the_right, "reduce_width_right", count),
                     above.ids \o below.ids, "increase_width_right", count)

increase_pane_and_surroundings_left(S, id, count) ==
    LET T == S.t
        all_left == terminal_ids_directly_left_of(T, id)
        terminal_borders_to_the_left == {T[t].y_coords : t \in SeqSet(all_left)}
        above == left_aligned_contiguous_panes_above(T, id, terminal_borders_to_the_left)
        below == left_aligned_contiguous_panes_below(T, id, terminal_borders_to_the_left)
        Keep(t) == pane_is_between_horizontal_borders(T, t, above.border, below.border)
        terminals_to_the_left == SelectSeq(all_left, Keep)
    IN  IF all_left = <<>> THEN Panic(S)
        ELSE ForEach(ForEach(increase_pane_width_left(S, id, count),
                             terminals_to_the_left, "reduce_width_left", count),
                     above.ids \o below.ids, "increase_width_left", count)

panes_exist_above(T, pane_id) == T[pane_id].y_coords > 0
panes_exist_below(T, pane_id) == Bottom(T[pane_id]) < FullScreenRows
panes_exist_to_the_right(T, pane_id) == Right(T[pane_id]) < FullScreenCols
panes_exist_to_the_left(T, pane_id) == T[pane_id].x_coords > 0

\* get_active_terminal(): None when there is no focus or the focused id is no key
ActivePaneExists(S) == S.active /= NoPane /\ S.active \in Ids(S.t)

\* get_active_terminal_id(): unwraps the focused pane when a focus is set
ActiveIdPanics(S) == S.active /= NoPane /\ S.active \notin Ids(S.t)

RECURSIVE RenderPanes(_, _)
\* "for (_pid, terminal) in self.terminals.iter_mut()" of render
RenderPanes(S, ids) ==
    IF ids = <<>> THEN S
    ELSE LET id == Head(ids)
             out == buffer_as_vte_output(PaneOf(S, id))
         IN  RenderPanes([S EXCEPT !.dirty = IF out.pane.should_render THEN @ \cup {id} ELSE @ \ {id},
                                   !.emitted = IF out.some THEN @ \cup {id} ELSE @],
                         Tail(ids))

\* render(): get_active_terminal_cursor_position unwraps the focused pane
render(S) ==
    LET drawn == RenderPanes(S, SortIds(Ids(S.t)))
    IN  IF ActivePaneExists(drawn) THEN drawn ELSE Panic(drawn)

resize_right(S) ==
    IF S.active = NoPane THEN S
    ELSE IF ActiveIdPanics(S) THEN Panic(S)
    ELSE IF panes_exist_to_the_right(S.t, S.active)
         THEN render(increase_pane_and_surroundings_right(S, S.active, ResizeColsCount))
    ELSE IF panes_exist_to_the_left(S.t, S.active)
         THEN render(reduce_pane_and_surroundings_right(S, S.active, ResizeColsCount))
    ELSE S

\* resize_left with its two branches in the order of resize_right
resize_left_growing_first(S) ==
    IF S.active = NoPane THEN S
    ELSE IF ActiveIdPanics(S) THEN Panic(S)
    ELSE IF panes_exist_to_the_left(S.t, S.active)
         THEN render(increase_pane_and_surroundings_left(S, S.active, ResizeColsCount))
    ELSE IF panes_exist_to_the_right(S.t, S.active)
         THEN render(reduce_pane_and_surroundings_left(S, S.active, ResizeColsCount))
    ELSE S

resize_left(S) ==
    IF S.active = NoPane THEN S
    ELSE IF ActiveIdPanics(S) THEN Panic(S)
    ELSE IF panes_exist_to_the_right(S.t, S.active)
         THEN render(reduce_pane_and_surroundings_left(S, S.active, ResizeColsCount))
    ELSE IF panes_exist_to_the_left(S.t, S.active)
         THEN render(increase_pane_and_surroundings_left(S, S.active, ResizeColsCount))
    ELSE S

resize_down(S) ==
    IF S.active = NoPane THEN S
    ELSE IF ActiveIdPanics(S) THEN Panic(S)
    ELSE IF panes_exist_above(S.t, S.active)
         THEN render(reduce_pane_and_surroundings_down(S, S.active, ResizeRowsCount))
    ELSE IF panes_exist_below(S.t, S.active)
         THEN render(increase_pane_and_surroundings_down(S, S.active, ResizeRowsCount))
    ELSE S

resize_up(S) ==
    IF S.active = NoPane THEN S
    ELSE IF ActiveIdPanics(S) THEN Panic(S)
    ELSE IF panes_exist_above(S.t, S.active)
         THEN render(increase_pane_and_surroundings_up(S, S.active, ResizeRowsCount))
    ELSE IF panes_exist_below(S.t, S.active)
         THEN render(reduce_pane_and_surroundings_up(S, S.active, ResizeRowsCount))
    ELSE S

\* move_focus that always takes first_terminal
move_focus_to_first(S) ==
    IF Ids(S.t) = {} THEN S
    ELSE IF ~ActivePaneExists(S) THEN Panic(S)
    ELSE render([S EXCEPT !.active = Min(Ids(S.t))])

move_focus(S) ==
    IF Ids(S.t) = {} THEN S
    ELSE IF ~ActivePaneExists(S) THEN Panic(S)
    ELSE LET later == {t \in Ids(S.t) : t > S.active}
         IN  render([S EXCEPT !.active = IF later /= {} THEN Min(later) ELSE Min(Ids(S.t))])

\* ------------------------------------------------------------------ close
horizontal_borders(T, ids) ==
    {T[t].y_coords : t \in SeqSet(ids)} \cup {Add16(Bottom(T[t]), 1) : t \in SeqSet(ids)}

vertical_borders(T, ids) ==
    {T[t].x_coords : t \in SeqSet(ids)} \cup {Add16(Right(T[t]), 1) : t \in SeqSet(ids)}

\* Option<Vec<RawFd>>: some = FALSE is None; Some(ids) may hold an empty Vec
None == [some |-> FALSE, ids |-> <<>>]
Some(ids) == [some |-> TRUE, ids |-> ids]

terminals_to_the_left_between_aligning_borders(T, id) ==
    LET upper_close_border == T[id].y_coords
        lower_close_border == Add16(Bottom(T[id]), 1)
        terminals_to_the_left == terminal_ids_directly_left_of(T, id)
        terminal_borders_to_the_left == horizontal_borders(T, terminals_to_the_left)
        Keep(t) == pane_is_between_horizontal_borders(T, t, upper_close_border, lower_close_border)
    IN  IF /\ id \in Ids(T)
           /\ terminals_to_the_left /= <<>>
           /\ upper_close_border \in terminal_borders_to_the_left
           /\ lower_close_border \in terminal_borders_to_the_left
        THEN Some(SelectSeq(terminals_to_the_left, Keep))
        ELSE None

terminals_to_the_right_between_aligning_borders(T, id) ==
    LET upper_close_border == T[id].y_coords
        lower_close_border == Add16(Bottom(T[id]), 1)
        terminals_to_the_right == terminal_ids_directly_right_of(T, id)
        terminal_borders_to_the_right == horizontal_borders(T, terminals_to_the_right)
        Keep(t) == pane_is_between_horizontal_borders(T, t, upper_close_border, lower_close_border)
    IN  IF /\ id \in Ids(T)
           /\ terminals_to_the_right /= <<>>
           /\ upper_close_border \in terminal_borders_to_the_right
           /\ lower_close_border \in terminal_borders_to_the_right
        THEN Some(SelectSeq(terminals_to_the_right, Keep))
        ELSE None

terminals_above_between_aligning_borders(T, id) ==
    LET left_close_border == T[id].x_coords
        right_close_border == Add16(Right(T[id]), 1)
        terminals_above == terminal_ids_directly_above(T, id)
        terminal_borders_above == vertical_borders(T, terminals_above)
        Keep(t) == pane_is_between_vertical_borders(T, t, left_close_border, right_close_border)
    IN  IF /\ id \in Ids(T)
           /\ terminals_above /= <<>>
           /\ left_close_border \in terminal_borders_above
           /\ right_close_border \in terminal_borders_above
        THEN Some(SelectSeq(terminals_above, Keep))
        ELSE None

terminals_below_between_aligning_borders(T, id) ==
    LET left_close_border == T[id].x_coords
        right_close_border == Add16(Right(T[id]), 1)
        terminals_below == terminal_ids_directly_below(T, id)
        terminal_borders_below == vertical_borders(T, terminals_below)
        Keep(t) == pane_is_between_vertical_borders(T, t, left_close_border, right_close_border)
    IN  IF /\ id \in Ids(T)
           /\ terminals_below /= <<>>
           /\ left_close_border \in terminal_borders_below
           /\ right_close_border \in terminal_borders_below
        THEN Some(SelectSeq(terminals_below, Keep))
        ELSE None

\* Absorb with the strip growing by the pane's size without "+ 1" for the border
AbsorbWithoutBorder(S, id, strip, how, size) ==
    LET grown == ForEach(S, strip, how, size)
        focused == IF S.active /= id THEN grown
                   ELSE IF strip = <<>> THEN Panic(grown)
                   ELSE [grown EXCEPT !.active = strip[Len(strip)]]
    IN  Remove(focused, id)

\* Absorb with the focus moving to the strip's first member
AbsorbFocusingFirst(S, id, strip, how, size) ==
    LET grown == ForEach([S EXCEPT !.ovf = @ \/ AddOvf(size, 1)], strip, how, Add16(size, 1))
        focused == IF S.active /= id THEN grown
                   ELSE IF strip = <<>> THEN Panic(grown)
                   ELSE [grown EXCEPT !.active = strip[1]]
    IN  Remove(focused, id)

\* one branch of close_pane_without_rerender: the strip absorbs the pane, the
\* focus moves to the strip's last member, the pane is removed
Absorb(S, id, strip, how, size) ==
    LET grown == ForEach([S EXCEPT !.ovf = @ \/ AddOvf(size, 1)], strip, how, Add16(size, 1))
        focused == IF S.active /= id THEN grown
                   ELSE IF strip = <<>> THEN Panic(grown)
                   ELSE [grown EXCEPT !.active = strip[Len(strip)]]
    IN  Remove(focused, id)

close_pane_without_rerender(S, id) ==
    IF id \notin Ids(S.t) THEN S
    ELSE LET T == S.t
             terminal_to_close_width == T[id].display_cols
             terminal_to_close_height == T[id].display_rows
             left == terminals_to_the_left_between_aligning_borders(T, id)
             right == terminals_to_the_right_between_aligning_borders(T, id)
             above == terminals_above_between_aligning_borders(T, id)
             below == terminals_below_between_aligning_borders(T, id)
         IN  IF left.some
             THEN Absorb(S, id, left.ids, "increase_width_right", terminal_to_close_width)
             ELSE IF right.some
             THEN Absorb(S, id, right.ids, "increase_width_left", terminal_to_close_width)
             ELSE IF above.some
             THEN Absorb(S, id, above.ids, "increase_height_down", terminal_to_close_height)
             ELSE IF below.some
             THEN Absorb(S, id, below.ids, "increase_height_up", terminal_to_close_height)
             ELSE S

close_pane(S, id) ==
    IF id \in Ids(S.t) THEN render(close_pane_without_rerender(S, id)) ELSE S

SendClosePane(S, id) == [S EXCEPT !.sent = Append(@, id)]

close_focused_pane(S) ==
    IF S.active = NoPane THEN S
    ELSE IF ActiveIdPanics(S) THEN Panic(S)
    ELSE close_pane(SendClosePane(S, S.active), S.active)

\* write_to_tty_stdin and tcdrain for the focused pane
write_to_active_terminal(S, byte) ==
    IF S.active = NoPane THEN S
    ELSE IF ActiveIdPanics(S) THEN Panic(S)
    ELSE [S EXCEPT !.written = Append(@, <<S.active, byte>>)]

\* scroll_active_terminal with render() outside "if let Some(active_terminal_id)"
scroll_active_terminal_rendering_always(S) ==
    IF ActiveIdPanics(S) THEN Panic(S)
    ELSE IF S.active = NoPane THEN render(S)
    ELSE render(SetShouldRender(S, S.active))

\* scroll_active_terminal_up and scroll_active_terminal_down: scroll_up(1) and
\* scroll_down(1) of the focused pane set its flag, then render
scroll_active_terminal(S) ==
    IF S.active = NoPane THEN S
    ELSE IF ActiveIdPanics(S) THEN Panic(S)
    ELSE render(SetShouldRender(S, S.active))

\* clear_scroll of the focused pane sets its flag; no render
clear_active_terminal_scroll(S) ==
    IF S.active = NoPane THEN S
    ELSE IF ActiveIdPanics(S) THEN Panic(S)
    ELSE SetShouldRender(S, S.active)

RECURSIVE CloseFirst(_, _)
\* the body of "for _ in max_panes..=self.terminals.len()", n iterations left
CloseFirst(S, n) ==
    IF n = 0 \/ S.panic THEN S
    ELSE IF Ids(S.t) = {} THEN Panic(S)
    ELSE LET first_pid == Min(Ids(S.t))
         IN  CloseFirst(close_pane_without_rerender(SendClosePane(S, first_pid), first_pid), n - 1)

close_down_to_max_terminals(S, max) ==
    IF max /= NoMax /\ Cardinality(Ids(S.t)) >= max
    THEN CloseFirst(S, Cardinality(Ids(S.t)) - max + 1)
    ELSE S

\* ----------------------------------------------------------------- create
\* FirstPane without "self.active_terminal = Some(pid)"
FirstPaneUnfocused(S, pid) ==
    set_terminal_size_using_fd(
        SetShouldRender([S EXCEPT !.t = (pid :> Pane(0, 0, FullScreenCols, FullScreenRows))], pid),
        pid, FullScreenCols, FullScreenRows)

\* the branch "if self.terminals.is_empty()" of new_pane and of both splits
FirstPane(S, pid) ==
    set_terminal_size_using_fd(
        SetShouldRender([S EXCEPT !.t = (pid :> Pane(0, 0, FullScreenCols, FullScreenRows)),
                                  !.active = pid], pid),
        pid, FullScreenCols, FullScreenRows)

\* SplitHorizontally without "self.active_terminal = Some(pid)"
SplitHorizontallyUnfocused(S, id, pid) ==
    LET p == S.t[id]
        halves == split_horizontally_with_gap(p.display_rows)
        bottom_half_y == Add16(Add16(p.y_coords, halves.first), 1)
        new_terminal == Pane(p.x_coords, bottom_half_y, p.display_cols, halves.second)
        split == [S EXCEPT !.t = (pid :> new_terminal) @@ [S.t EXCEPT ![id].display_rows = halves.first],
            !.ovf = @ \/ halves.ovf \/ AddOvf(p.y_coords, halves.first)
            \/ AddOvf(p.y_coords + halves.first, 1)]
        created == set_terminal_size_using_fd(SetShouldRender(split, pid), pid, p.display_cols, halves.second)
    IN  set_terminal_size_using_fd(SetShouldRender(created, id), id, p.display_cols, halves.first)

\* TerminalPane::new for the second half, change_size of the first half, insert
SplitHorizontally(S, id, pid) ==
    LET p == S.t[id]
        halves == split_horizontally_with_gap(p.display_rows)
        bottom_half_y == Add16(Add16(p.y_coords, halves.first), 1)
        new_terminal == Pane(p.x_coords, bottom_half_y, p.display_cols, halves.second)
        split == [S EXCEPT !.t = (pid :> new_terminal) @@ [S.t EXCEPT ![id].display_rows = halves.first],
            !.active = pid,
            !.ovf = @ \/ halves.ovf \/ AddOvf(p.y_coords, halves.first)
            \/ AddOvf(p.y_coords + halves.first, 1)]
        created == set_terminal_size_using_fd(SetShouldRender(split, pid), pid, p.display_cols, halves.second)
    IN  set_terminal_size_using_fd(SetShouldRender(created, id), id, p.display_cols, halves.first)

\* SplitVertically with the new pane taking the place of the split pane
SplitVerticallyDropping(S, id, pid) ==
    LET p == S.t[id]
        halves == split_vertically_with_gap(p.display_cols)
        right_side_x == Add16(Add16(p.x_coords, halves.first), 1)
        new_terminal == Pane(right_side_x, p.y_coords, halves.second, p.display_rows)
        split == [S EXCEPT !.t = (pid :> new_terminal) @@ [t \in Ids(S.t) \ {id} |-> S.t[t]],
            !.active = pid,
            !.ovf = @ \/ halves.ovf \/ AddOvf(p.x_coords, halves.first)
            \/ AddOvf(p.x_coords + halves.first, 1)]
    IN  set_terminal_size_using_fd(SetShouldRender(split, pid), pid, halves.second, p.display_rows)

SplitVertically(S, id, pid) ==
    LET p == S.t[id]
        halves == split_vertically_with_gap(p.display_cols)
        right_side_x == Add16(Add16(p.x_coords, halves.first), 1)
        new_terminal == Pane(right_side_x, p.y_coords, halves.second, p.display_rows)
        split == [S EXCEPT !.t = (pid :> new_terminal) @@ [S.t EXCEPT ![id].display_cols = halves.first],
            !.active = pid,
            !.ovf = @ \/ halves.ovf \/ AddOvf(p.x_coords, halves.first)
            \/ AddOvf(p.x_coords + halves.first, 1)]
        created == set_terminal_size_using_fd(SetShouldRender(split, pid), pid, halves.second, p.display_rows)
    IN  set_terminal_size_using_fd(SetShouldRender(created, id), id, halves.first, p.display_rows)

RECURSIVE LargestFold(_, _, _)
\* the fold of new_pane over the map in key order, acc = (size, id, overflowed)
LargestFold(T, ids, acc) ==
    IF ids = <<>> THEN acc
    ELSE LET p == T[Head(ids)]
             weighted_rows == Mul16(p.display_rows, CURSOR_HEIGHT_WIDGH_RATIO)
             terminal_size == Mul16(weighted_rows, p.display_cols)
             ovf == \/ acc.ovf
                    \/ MulOvf(p.display_rows, CURSOR_HEIGHT_WIDGH_RATIO)
                    \/ MulOvf(weighted_rows, p.display_cols)
         IN  LargestFold(T, Tail(ids),
                 IF terminal_size > acc.size
                 THEN [size |-> terminal_size, id |-> Head(ids), ovf |-> ovf]
                 ELSE [acc EXCEPT !.ovf = ovf])

new_pane(S, pid, max) ==
    LET closed == close_down_to_max_terminals(S, max)
        largest == LargestFold(closed.t, SortIds(Ids(closed.t)), [size |-> 0, id |-> 0, ovf |-> FALSE])
        terminal_id_to_split == largest.id
        checked == [closed EXCEPT !.ovf = @ \/ largest.ovf]
    IN  IF closed.panic THEN closed
        ELSE IF Ids(closed.t) = {} THEN FirstPane(closed, pid)
        ELSE IF terminal_id_to_split \notin Ids(closed.t) THEN Panic(checked)
        ELSE LET p == closed.t[terminal_id_to_split]
             IN  IF Mul16(p.display_rows, CURSOR_HEIGHT_WIDGH_RATIO) > p.display_cols
                 THEN render(SplitHorizontally(checked, terminal_id_to_split, pid))
                 ELSE render(SplitVertically(checked, terminal_id_to_split, pid))

horizontal_split(S, pid, max) ==
    LET closed == close_down_to_max_terminals(S, max)
    IN  IF closed.panic THEN closed
        ELSE IF Ids(closed.t) = {} THEN FirstPane(closed, pid)
        ELSE IF ~ActivePaneExists(closed) THEN Panic(closed)
        ELSE render(SplitHorizontally(closed, closed.active, pid))

vertical_split(S, pid, max) ==
    LET closed == close_down_to_max_terminals(S, max)
    IN  IF closed.panic THEN closed
        ELSE IF Ids(closed.t) = {} THEN FirstPane(closed, pid)
        ELSE IF ~ActivePaneExists(closed) THEN Panic(closed)
        ELSE render(SplitVertically(closed, closed.active, pid))

\* handle_pty_event: unwraps the pane, which handles the event; of the pane
\* the Screen model keeps the flag
handle_pty_event(S, pid, event) ==
    IF pid \notin Ids(S.t) THEN Panic(S)
    ELSE LET P == handle_event(PaneOf(S, pid), event)
         IN  [S EXCEPT !.dirty = IF P.should_render THEN @ \cup {pid} ELSE @ \ {pid},
                       !.panic = @ \/ P.panic,
                       !.ovf = @ \/ P.ovf]

\* ---------------------------------------------------------------- actions
Screen == [t |-> terminals, active |-> active_terminal, sent |-> <<>>,
           dirty |-> should_render, size |-> notified, emitted |-> {}, written |-> <<>>,
           ovf |-> FALSE, panic |-> FALSE]

Before == [t |-> terminals, active |-> active_terminal, dirty |-> should_render]

\* the instruction panicked: an unwrap failed, or u16 arithmetic overflowed in a
\* build that checks it
Panicked(R) == R.panic \/ (R.ovf /\ overflow_checks)

\* what one instruction of the dispatch loop does, R the Screen it leaves
Effect(name, id, R) ==
    /\ status = "running"
    /\ last_op' = [name |-> name, id |-> id, before |-> Before]
    /\ UNCHANGED <<max_panes, overflow_checks, pane_vars>>
    /\ IF Panicked(R)
       THEN /\ status' = "aborted"
            /\ UNCHANGED <<terminals, active_terminal, sent, should_render, notified, emitted,
                           written>>
       ELSE /\ status' = "running"
            /\ terminals' = R.t
            /\ active_terminal' = R.active
            /\ sent' = R.sent
            /\ should_render' = R.dirty
            /\ notified' = R.size
            /\ emitted' = R.emitted
            /\ written' = R.written

\* one instruction of the dispatch loop in a run of at most MaxOps instructions
Handle(name, id, R) ==
    /\ ops < MaxOps
    /\ ops' = ops + 1
    /\ UNCHANGED script
    /\ Effect(name, id, R)

EmptyMap == [t \in {} |-> Pane(0, 0, 0, 0)]
NoSizes == [t \in {} |-> <<0, 0>>]

\* PaneSpec: no event was handled yet
NoEvent == [event |-> VteEvent("", 0, <<>>, ""), before |-> NewTerminalPane(FullScreenCols, FullScreenRows)]

\* the events the Screen of Spec is sent for its panes
ScreenEvents == {VtePrint("a")}

\* the Screen after Screen::new, but for max_panes
Start ==
    /\ terminals = EmptyMap
    /\ active_terminal = NoPane
    /\ overflow_checks \in BOOLEAN
    /\ sent = <<>>
    /\ status = "running"
    /\ last_op = [name |-> "new", id |-> NoPane,
                  before |-> [t |-> EmptyMap, active |-> NoPane, dirty |-> {}]]
    /\ ops = 0
    /\ should_render = {}
    /\ notified = NoSizes
    /\ emitted = {}
    /\ pane = NewTerminalPane(FullScreenCols, FullScreenRows)
    /\ last_event = NoEvent
    /\ written = <<>>

Init ==
    /\ Start
    /\ max_panes \in {NoMax} \cup (0..MaxMaxPanes)
    /\ script = <<>>

NewPane == \E pid \in PaneIds \ Ids(terminals) : Handle("new_pane", pid, new_pane(Screen, pid, max_panes))
HorizontalSplit == \E pid \in PaneIds \ Ids(terminals) : Handle("horizontal_split", pid, horizontal_split(Screen, pid, max_panes))
VerticalSplit == \E pid \in PaneIds \ Ids(terminals) : Handle("vertical_split", pid, vertical_split(Screen, pid, max_panes))
ResizeRight == Handle("resize_right", NoPane, resize_right(Screen))
ResizeLeft == Handle("resize_left", NoPane, resize_left(Screen))
ResizeDown == Handle("resize_down", NoPane, resize_down(Screen))
ResizeUp == Handle("resize_up", NoPane, resize_up(Screen))
MoveFocus == Handle("move_focus", NoPane, move_focus(Screen))
ClosePane == \E id \in PaneIds : Handle("close_pane", id, close_pane(Screen, id))
CloseFocusedPane == Handle("close_focused_pane", NoPane, close_focused_pane(Screen))
Pty == \E pid \in PaneIds, event \in ScreenEvents : Handle("pty", pid, handle_pty_event(Screen, pid, event))
Render == Handle("render", NoPane, render(Screen))

Next ==
    \/ NewPane
    \/ HorizontalSplit
    \/ VerticalSplit
    \/ ResizeRight
    \/ ResizeLeft
    \/ ResizeDown
    \/ ResizeUp
    \/ MoveFocus
    \/ ClosePane
    \/ CloseFocusedPane
    \/ Pty
    \/ Render

Spec == Init /\ [][Next]_vars

\* ------------------------------------- the Screen after a scripted run
\* the instructions of the dispatch loop by name; Quit ends the loop
Instruction(name, id, S) ==
    CASE name = "new_pane"           -> new_pane(S, id, max_panes)
      [] name = "horizontal_split"   -> horizontal_split(S, id, max_panes)
      [] name = "vertical_split"     -> vertical_split(S, id, max_panes)
      [] name = "resize_right"       -> resize_right(S)
      [] name = "resize_left"        -> resize_left(S)
      [] name = "resize_down"        -> resize_down(S)
      [] name = "resize_up"          -> resize_up(S)
      [] name = "move_focus"         -> move_focus(S)
      [] name = "close_pane"         -> close_pane(S, id)
      [] name = "close_focused_pane" -> close_focused_pane(S)
      [] name = "pty"                -> handle_pty_event(S, id, VtePrint("a"))
      [] name = "render"             -> render(S)
      [] name = "write_character"    -> write_to_active_terminal(S, 97)
      [] name = "scroll_up"          -> scroll_active_terminal(S)
      [] name = "scroll_down"        -> scroll_active_terminal(S)
      [] name = "clear_scroll"       -> clear_active_terminal_scroll(S)

InstructionNames ==
    {"new_pane", "horizontal_split", "vertical_split", "resize_right", "resize_left",
     "resize_down", "resize_up", "move_focus", "close_pane", "close_focused_pane", "pty",
     "render", "write_character", "scroll_up", "scroll_down", "clear_scroll"}

LayoutIds == 1..NumLayoutIds

\* the pane ids an instruction can carry: a new pane has a fresh id
Arguments(name) ==
    IF name \in {"new_pane", "horizontal_split", "vertical_split"} THEN LayoutIds \ Ids(terminals)
    ELSE IF name \in {"close_pane", "pty"} THEN LayoutIds
    ELSE {NoPane}

Do(name, id) == [name |-> name, id |-> id]
Times(n, instruction) == [i \in 1..n |-> instruction]

\* three columns: pane 1 above pane 6 | pane 2 of full height | panes 3 and 5
\* side by side above pane 4; the focus on pane 5, the top right pane
ColumnsScript ==
    <<Do("new_pane", 1), Do("vertical_split", 2), Do("vertical_split", 3),
      Do("horizontal_split", 4)>>
        \o Times(3, Do("move_focus", NoPane))
        \o <<Do("vertical_split", 5), Do("move_focus", NoPane), Do("horizontal_split", 6)>>
        \o Times(5, Do("move_focus", NoPane))

\* the runs LayoutSpec starts with: none, or the one that builds the columns
Scripts == {<<>>, ColumnsScript}

LayoutInit ==
    /\ Start
    /\ max_panes = NoMax
    /\ script \in Scripts

\* the next instruction of the script
Scripted ==
    /\ script /= <<>>
    /\ script' = Tail(script)
    /\ UNCHANGED ops
    /\ Effect(Head(script).name, Head(script).id,
              Instruction(Head(script).name, Head(script).id, Screen))

\* any instruction, once the script is done
Free ==
    /\ script = <<>>
    /\ ops < FreeOps
    /\ ops' = ops + 1
    /\ UNCHANGED script
    /\ \E name \in InstructionNames : \E id \in Arguments(name) :
           Effect(name, id, Instruction(name, id, Screen))

LayoutNext ==
    \/ Scripted
    \/ Free

LayoutSpec == LayoutInit /\ [][LayoutNext]_vars

\* ------------------------------------- new_pane on viewports of other sizes
\* widths and heights of the viewport Screen::new is given
SizedCols == {24, 80, 200, 256, 1000}
SizedRows == {8, 24, 64, 100, 300, 16384}

\* the Screen after new_pane(1) on a viewport of cols x rows: one focused pane that
\* fills it (the branch "if self.terminals.is_empty()")
SizedInit ==
    \E cols \in SizedCols, rows \in SizedRows :
        /\ terminals = (1 :> Pane(0, 0, cols, rows))
        /\ active_terminal = 1
        /\ overflow_checks \in BOOLEAN
        /\ max_panes = NoMax
        /\ sent = <<>>
        /\ status = "running"
        /\ last_op = [name |-> "new_pane", id |-> 1,
                      before |-> [t |-> EmptyMap, active |-> NoPane, dirty |-> {}]]
        /\ ops = 0
        /\ should_render = {1}
        /\ notified = (1 :> <<cols, rows>>)
        /\ emitted = {}
        /\ pane = NewTerminalPane(FullScreenCols, FullScreenRows)
        /\ last_event = NoEvent
        /\ written = <<>>
        /\ script = <<>>

\* NewPane on a screen that holds a pane: the branch that folds over the map, which
\* reads the panes' sizes and not the viewport's
SizedNewPane ==
    /\ terminals /= EmptyMap
    /\ ops < SizedOps
    /\ ops' = ops + 1
    /\ UNCHANGED script
    /\ \E pid \in LayoutIds \ Ids(terminals) :
           Effect("new_pane", pid, new_pane(Screen, pid, max_panes))

SizedNext == SizedNewPane

SizedSpec == SizedInit /\ [][SizedNext]_vars

\* ------------------------------------------------ one pane handling events
\* the events the pane of PaneSpec is sent
Characters == {"a"}
ExecuteBytes == {7, 8, 10, 13}
SgrParams ==
    {<<>>, <<38, 5, 9>>, <<4, 2>>, <<31, 1>>, <<0, 31>>}
        \cup {<<n>> : n \in {0, 1, 22, 39, 49, 99} \cup (30..37) \cup (40..47)}
CsiEvents ==
    {VteCsiDispatch(params, "m") : params \in SgrParams}
        \cup {VteCsiDispatch(params, c) : params \in {<<>>, <<0>>, <<2>>, <<0, 0>>, <<2, 3>>},
                                         c \in {"C", "D", "A", "H", "K", "J", "r", "M", "L"}}
        \cup {VteCsiDispatch(<<>>, c) : c \in {"l", "h", "t", "n", "c", "q", "d", "X", "G"}}
        \cup {VteCsiDispatch(params, c) : params \in {<<>>, <<0>>}, c \in {"z", "@"}}

\* the pane as the next event finds it
CurrentPane == [pane EXCEPT !.ovf = FALSE]

\* one call on the pane, R the pane it leaves.  A panic ends the run with the
\* pane as it was when the panic happened; usize arithmetic is done, in the
\* branch "H" of csi_dispatch only, before the pane is changed
PaneHandle(event, R) ==
    /\ status = "running"
    /\ ops < MaxEvents
    /\ ops' = ops + 1
    /\ last_event' = [event |-> event, before |-> CurrentPane]
    /\ UNCHANGED <<screen_vars, overflow_checks>>
    /\ IF R.ovf /\ overflow_checks
       THEN status' = "aborted" /\ pane' = [CurrentPane EXCEPT !.panic = TRUE, !.ovf = TRUE]
       ELSE /\ status' = IF R.panic THEN "aborted" ELSE "running"
            /\ pane' = R

PaneInit ==
    /\ Init
    /\ max_panes = NoMax

PanePrint == \E c \in Characters : PaneHandle(VtePrint(c), handle_event(CurrentPane, VtePrint(c)))
PaneExecute == \E byte \in ExecuteBytes : PaneHandle(VteExecute(byte), handle_event(CurrentPane, VteExecute(byte)))
PaneCsiDispatch == \E event \in CsiEvents : PaneHandle(event, handle_event(CurrentPane, event))
PaneIgnored == \E kind \in IgnoredKinds : PaneHandle(VteEvent(kind, 0, <<>>, ""), handle_event(CurrentPane, VteEvent(kind, 0, <<>>, "")))
PaneBufferAsVteOutput == PaneHandle(VteEvent("buffer_as_vte_output", 0, <<>>, ""), buffer_as_vte_output(CurrentPane).pane)

PaneNext ==
    \/ PanePrint
    \/ PaneExecute
    \/ PaneCsiDispatch
    \/ PaneIgnored
    \/ PaneBufferAsVteOutput

PaneSpec == PaneInit /\ [][PaneNext]_vars

\* ------------------------------------------------------- geometry of a map
Overlap(p, q) ==
    /\ p.x_coords < q.x_coords + q.display_cols
    /\ q.x_coords < p.x_coords + p.display_cols
    /\ p.y_coords < q.y_coords + q.display_rows
    /\ q.y_coords < p.y_coords + p.display_rows

NoOverlap(T) == \A a, b \in Ids(T) : a /= b => ~Overlap(T[a], T[b])

ViewportCells == {<<cx, cy>> : cx \in 0..(FullScreenCols - 1), cy \in 0..(FullScreenRows - 1)}

\* the cell c lies in the interior of p
Covers(p, c) ==
    /\ p.x_coords <= c[1] /\ c[1] < p.x_coords + p.display_cols
    /\ p.y_coords <= c[2] /\ c[2] < p.y_coords + p.display_rows

\* the cell c lies on the one-cell frame around p, where a border line is drawn
OnFrame(p, c) ==
    /\ ~Covers(p, c)
    /\ p.x_coords - 1 <= c[1] /\ c[1] <= p.x_coords + p.display_cols
    /\ p.y_coords - 1 <= c[2] /\ c[2] <= p.y_coords + p.display_rows

Coverers(T, c) == {t \in Ids(T) : Covers(T[t], c)}

\* a cell of an inter-pane gap line: in no pane, on the frame of some pane
BorderCell(T, c) == Coverers(T, c) = {} /\ \E t \in Ids(T) : OnFrame(T[t], c)

RECURSIVE AreaSum(_, _)
AreaSum(T, ids) ==
    IF ids = {} THEN 0
    ELSE LET t == Min(ids)
         IN  T[t].display_cols * T[t].display_rows + AreaSum(T, ids \ {t})

Tiles(T) ==
    /\ \A c \in ViewportCells : Cardinality(Coverers(T, c)) = 1 \/ BorderCell(T, c)
    /\ AreaSum(T, Ids(T)) + Cardinality({c \in ViewportCells : BorderCell(T, c)})
           = FullScreenCols * FullScreenRows

RowsMeet(p, q) ==
    /\ p.y_coords < q.y_coords + q.display_rows
    /\ q.y_coords < p.y_coords + p.display_rows

ColsMeet(p, q) ==
    /\ p.x_coords < q.x_coords + q.display_cols
    /\ q.x_coords < p.x_coords + p.display_cols

\* a is left of b, they share rows, and no third pane sits between them in those rows
NeighboursAcrossVerticalBorder(T, a, b) ==
    /\ a /= b
    /\ T[a].x_coords < T[b].x_coords
    /\ RowsMeet(T[a], T[b])
    /\ ~\E c \in Ids(T) \ {a, b} :
          /\ T[a].x_coords < T[c].x_coords /\ T[c].x_coords < T[b].x_coords
          /\ RowsMeet(T[c], T[a]) /\ RowsMeet(T[c], T[b])

\* a is above b, they share columns, and no third pane sits between them in those columns
NeighboursAcrossHorizontalBorder(T, a, b) ==
    /\ a /= b
    /\ T[a].y_coords < T[b].y_coords
    /\ ColsMeet(T[a], T[b])
    /\ ~\E c \in Ids(T) \ {a, b} :
          /\ T[a].y_coords < T[c].y_coords /\ T[c].y_coords < T[b].y_coords
          /\ ColsMeet(T[c], T[a]) /\ ColsMeet(T[c], T[b])

OneCellGaps(T) ==
    \A a, b \in Ids(T) :
        /\ NeighboursAcrossVerticalBorder(T, a, b)
              => T[a].x_coords + T[a].display_cols + 1 = T[b].x_coords
        /\ NeighboursAcrossHorizontalBorder(T, a, b)
              => T[a].y_coords + T[a].display_rows + 1 = T[b].y_coords

MinimumSize(T) == \A t \in Ids(T) : T[t].display_cols >= 1 /\ T[t].display_rows >= 1

CreateOps == {"new_pane", "horizontal_split", "vertical_split"}
ResizeOps == {"resize_right", "resize_left", "resize_down", "resize_up"}

\* ------------------------------------------------------------------ claims

\* C1: after any sequence of public operations the rectangles of any two
\* distinct panes do not overlap
C1_NoOverlap == NoOverlap(terminals)

\* C2: on a non-empty screen the pane interiors and the one-cell border gaps
\* tile the viewport: every viewport cell is inside exactly one pane or on a
\* border line, and sum(cols x rows) + border_cells = viewport_cols x viewport_rows
C2_Tiling == Ids(terminals) /= {} => Tiles(terminals)

\* C3: neighbours across a vertical border satisfy left.x + left.cols + 1 = right.x,
\* neighbours across a horizontal border top.y + top.rows + 1 = bottom.y
C3_OneCellGaps == OneCellGaps(terminals)

\* C4: every pane has cols >= 1 and rows >= 1, also right after a split
C4_MinimumSize == MinimumSize(terminals)

\* C5: the focused pane-id is a key of the pane map whenever it is set, and it is
\* unset if and only if the pane map is empty
C5_FocusExists ==
    /\ active_terminal /= NoPane => active_terminal \in Ids(terminals)
    /\ active_terminal = NoPane <=> Ids(terminals) = {}

\* C5 witness: the focused pane was closed and the focus moved to a remaining pane
C5_Witness ==
    /\ status = "running"
    /\ last_op.name \in {"close_pane", "close_focused_pane"}
    /\ last_op.before.active \notin Ids(terminals)
    /\ last_op.before.active /= NoPane
    /\ active_terminal \in Ids(terminals)

\* the Screen a resize instruction was handled in
ScreenBefore == [t |-> last_op.before.t, active |-> last_op.before.active, sent |-> <<>>,
                 dirty |-> last_op.before.dirty, size |-> NoSizes, emitted |-> {},
                 written |-> <<>>,
                 ovf |-> FALSE, panic |-> FALSE]

ResizeResult(name, S) ==
    CASE name = "resize_right" -> resize_right(S)
      [] name = "resize_left"  -> resize_left(S)
      [] name = "resize_down"  -> resize_down(S)
      [] name = "resize_up"    -> resize_up(S)

\* the resize would take a pane it changes to zero or fewer columns or rows
Infeasible(name, S) ==
    LET R == ResizeResult(name, S)
    IN  \/ R.ovf
        \/ \E t \in Ids(S.t) : /\ R.t[t] /= S.t[t]
                               /\ (R.t[t].display_cols = 0 \/ R.t[t].display_rows = 0)

\* C6: a resize that would reduce an affected pane to zero or fewer columns or
\* rows is dropped: every pane keeps its rectangle, nothing aborts or wraps
C6_InfeasibleResizeDropped ==
    (last_op.name \in ResizeOps /\ MinimumSize(last_op.before.t)
        /\ Infeasible(last_op.name, ScreenBefore))
    => (status = "running" /\ terminals = last_op.before.t)

\* C7: a Pty instruction for a pane-id that is not in the map is dropped: the
\* Screen is unchanged and later instructions are still handled
C7_UnknownPaneDropped ==
    (last_op.name = "pty" /\ last_op.id \notin Ids(last_op.before.t))
    => (status = "running" /\ terminals = last_op.before.t
                           /\ active_terminal = last_op.before.active)

\* C8: with max_panes = Some(m), m >= 1, at most m panes are in the map when
\* new_pane, horizontal_split or vertical_split returns
C8_MaxPanes ==
    (max_panes >= 1 /\ last_op.name \in CreateOps /\ status = "running")
    => Cardinality(Ids(terminals)) <= max_panes

\* C9: every ClosePane(id) sent by an instruction is for a pane that is no
\* longer in the map when the instruction returns, and no id is sent twice
C9_ClosePaneRemoves ==
    status = "running" =>
        /\ \A i \in 1..Len(sent) : sent[i] \notin Ids(terminals)
        /\ \A i, j \in 1..Len(sent) : sent[i] = sent[j] => i = j

\* C10: new_pane(id), horizontal_split(id) or vertical_split(id) on an empty
\* screen creates exactly one pane (0, 0, viewport_cols, viewport_rows) and
\* focuses it
C10_FirstPaneFillsViewport ==
    (last_op.name \in CreateOps /\ Ids(last_op.before.t) = {})
    => /\ status = "running"
       /\ terminals = (last_op.id :> Pane(0, 0, FullScreenCols, FullScreenRows))
       /\ active_terminal = last_op.id

\* ------------------------------------------------------ create, claims 11-14
\* rows x 4 x cols of a pane, as a number
WeightedArea(p) == p.display_rows * CURSOR_HEIGHT_WIDGH_RATIO * p.display_cols

\* the Screen of the last instruction after its max_panes eviction
Evicted == close_down_to_max_terminals(ScreenBefore, max_panes)

\* the map T with pane s split into s above and new below
IsHorizontalSplitOf(T, s, new) ==
    /\ Ids(terminals) = Ids(T) \cup {new}
    /\ \A t \in Ids(T) \ {s} : terminals[t] = T[t]
    /\ terminals[s].x_coords = T[s].x_coords /\ terminals[s].y_coords = T[s].y_coords
    /\ terminals[s].display_cols = T[s].display_cols
    /\ terminals[new].x_coords = T[s].x_coords
    /\ terminals[new].display_cols = T[s].display_cols
    /\ terminals[new].y_coords > T[s].y_coords

\* the map T with pane s split into s on the left and new on the right
IsVerticalSplitOf(T, s, new) ==
    /\ Ids(terminals) = Ids(T) \cup {new}
    /\ \A t \in Ids(T) \ {s} : terminals[t] = T[t]
    /\ terminals[s].x_coords = T[s].x_coords /\ terminals[s].y_coords = T[s].y_coords
    /\ terminals[s].display_rows = T[s].display_rows
    /\ terminals[new].y_coords = T[s].y_coords
    /\ terminals[new].display_rows = T[s].display_rows
    /\ terminals[new].x_coords > T[s].x_coords

\* C11: new_pane on a non-empty screen splits a pane whose weighted area
\* rows x 4 x cols is the largest among all panes (after the eviction),
\* horizontally when rows x 4 > cols and vertically otherwise
C11_LargestPaneSplit ==
    (last_op.name = "new_pane" /\ Ids(last_op.before.t) /= {})
    => /\ status = "running"
       /\ \E s \in Ids(Evicted.t) :
            /\ \A t \in Ids(Evicted.t) : WeightedArea(Evicted.t[t]) <= WeightedArea(Evicted.t[s])
            /\ IF Evicted.t[s].display_rows * CURSOR_HEIGHT_WIDGH_RATIO > Evicted.t[s].display_cols
               THEN IsHorizontalSplitOf(Evicted.t, s, last_op.id)
               ELSE IsVerticalSplitOf(Evicted.t, s, last_op.id)

\* the two halves of an extent of n cells, as numbers
FirstHalf(n) == (n - 1) \div 2 + (IF n % 2 = 0 THEN 1 ELSE 0)
SecondHalf(n) == (n - 1) \div 2

\* pane s of T is now the left half and new the right half of what s was
VerticalHalves(T, s, new) ==
    /\ terminals[s] = Pane(T[s].x_coords, T[s].y_coords,
                           FirstHalf(T[s].display_cols), T[s].display_rows)
    /\ terminals[new] = Pane(T[s].x_coords + terminals[s].display_cols + 1, T[s].y_coords,
                             SecondHalf(T[s].display_cols), T[s].display_rows)
    /\ terminals[s].display_cols + 1 + terminals[new].display_cols = T[s].display_cols

\* pane s of T is now the top half and new the bottom half of what s was
HorizontalHalves(T, s, new) ==
    /\ terminals[s] = Pane(T[s].x_coords, T[s].y_coords,
                           T[s].display_cols, FirstHalf(T[s].display_rows))
    /\ terminals[new] = Pane(T[s].x_coords, T[s].y_coords + terminals[s].display_rows + 1,
                             T[s].display_cols, SecondHalf(T[s].display_rows))
    /\ terminals[s].display_rows + 1 + terminals[new].display_rows = T[s].display_rows

\* C12: a vertical split of (x, y, cols, rows) leaves the source pane at (x, y)
\* with cols = (cols-1)/2 + (1 if cols is even) and puts the new pane at
\* x + left.cols + 1, same y and rows, with cols = (cols-1)/2; a horizontal
\* split does the same on rows and y; the halves and one border cell add up
\* to the original extent
C12_SplitHalves ==
    (last_op.name \in CreateOps /\ Ids(last_op.before.t) /= {})
    => /\ status = "running"
       /\ last_op.id \in Ids(terminals)
       /\ \E s \in Ids(Evicted.t) :
            \/ last_op.name /= "horizontal_split" /\ VerticalHalves(Evicted.t, s, last_op.id)
            \/ last_op.name /= "vertical_split" /\ HorizontalHalves(Evicted.t, s, last_op.id)

\* C13: when new_pane(id), horizontal_split(id) or vertical_split(id) returns,
\* id is in the pane map and focused; horizontal_split and vertical_split
\* split the pane that was focused (after the eviction) and no other
C13_NewPaneFocused ==
    (last_op.name \in CreateOps /\ status = "running")
    => /\ last_op.id \in Ids(terminals)
       /\ active_terminal = last_op.id
       /\ (last_op.name /= "new_pane" /\ Ids(Evicted.t) /= {})
          => /\ Evicted.active \in Ids(Evicted.t)
             /\ \A t \in Ids(Evicted.t) \ {Evicted.active} : terminals[t] = Evicted.t[t]
             /\ terminals[Evicted.active] /= Evicted.t[Evicted.active]
             /\ IF last_op.name = "horizontal_split"
                THEN /\ terminals[last_op.id].x_coords = Evicted.t[Evicted.active].x_coords
                     /\ terminals[last_op.id].display_cols = Evicted.t[Evicted.active].display_cols
                ELSE /\ terminals[last_op.id].y_coords = Evicted.t[Evicted.active].y_coords
                     /\ terminals[last_op.id].display_rows = Evicted.t[Evicted.active].display_rows

\* C13 witness: horizontal_split on a screen of two or more panes split the
\* focused pane, which is not the first of the map, and focused the new pane
C13_Witness ==
    /\ last_op.name = "horizontal_split" /\ status = "running"
    /\ Cardinality(Ids(last_op.before.t)) >= 2
    /\ last_op.before.active /= Min(Ids(last_op.before.t))
    /\ last_op.before.active \in Ids(terminals)
    /\ terminals[last_op.before.active] /= last_op.before.t[last_op.before.active]
    /\ active_terminal = last_op.id

\* C14: a split with a fresh pane-id and no eviction changes only the split
\* pane and adds the new pane: every other pane keeps its rectangle and the
\* pane count grows by exactly one
C14_SplitFrame ==
    (last_op.name \in CreateOps /\ status = "running" /\ sent = <<>>
        /\ Ids(last_op.before.t) /= {} /\ last_op.id \notin Ids(last_op.before.t))
    => /\ Ids(terminals) = Ids(last_op.before.t) \cup {last_op.id}
       /\ Cardinality(Ids(terminals)) = Cardinality(Ids(last_op.before.t)) + 1
       /\ \E s \in Ids(last_op.before.t) :
            \A t \in Ids(last_op.before.t) \ {s} : terminals[t] = last_op.before.t[t]

\* C14 witness: a vertical split on a screen of three panes changed one of
\* them and left the other two as they were
C14_Witness ==
    /\ last_op.name = "vertical_split" /\ status = "running" /\ sent = <<>>
    /\ Cardinality(Ids(last_op.before.t)) = 3
    /\ Cardinality(Ids(terminals)) = 4
    /\ Cardinality({t \in Ids(last_op.before.t) : terminals[t] = last_op.before.t[t]}) = 2

\* ------------------------------------------------------ resize, claims 15-17
\* every pane of T lies inside the viewport (no coordinate or size has wrapped)
InsideViewport(T) ==
    \A t \in Ids(T) : /\ T[t].x_coords + T[t].display_cols <= FullScreenCols
                      /\ T[t].y_coords + T[t].display_rows <= FullScreenRows

\* the pane that was focused when the last instruction was handled
FocusedBefore == last_op.before.t[last_op.before.active]

HadFocus == last_op.before.active \in Ids(last_op.before.t)

\* the focused pane's columns (rows) had wrapped to 2^16 - 1, so that in u16
\* arithmetic the pane lay directly left and right of (above and below) itself
OwnNeighbourInRow == Add16(FocusedBefore.display_cols, 1) = 0
OwnNeighbourInColumn == Add16(FocusedBefore.display_rows, 1) = 0

\* C15: resize_right on the focused pane P: if panes exist to the right of P,
\* P grows rightward (x unchanged, cols + 10); otherwise, if panes exist to
\* the left of P, P's right edge moves leftward by 10 while its x is unchanged
C15_ResizeRight ==
    (last_op.name = "resize_right" /\ HadFocus)
    => LET P == last_op.before.active
           T == last_op.before.t
       IN  IF panes_exist_to_the_right(T, P)
           THEN /\ status = "running"
                /\ terminals[P] = [FocusedBefore EXCEPT !.display_cols = @ + ResizeColsCount]
           ELSE panes_exist_to_the_left(T, P)
                => /\ status = "running"
                   /\ terminals[P].x_coords = FocusedBefore.x_coords
                   /\ terminals[P].x_coords + terminals[P].display_cols
                        = FocusedBefore.x_coords + FocusedBefore.display_cols - ResizeColsCount

\* C15 amended: when resize_right returns, P not having 2^16 - 1 columns: if
\* panes exist to the right of P, P grows rightward (x unchanged, cols + 10);
\* otherwise, if panes exist to the left of P, P shrinks from the left: x + 10
\* and cols - 10, so its left edge moves rightward by 10 and its right edge
\* stays (u16 arithmetic); otherwise nothing changes
C15_ResizeRightAmended ==
    (last_op.name = "resize_right" /\ HadFocus /\ status = "running"
        /\ ~OwnNeighbourInRow)
    => LET P == last_op.before.active
           T == last_op.before.t
       IN  IF panes_exist_to_the_right(T, P)
           THEN terminals[P] = [FocusedBefore EXCEPT !.display_cols = Add16(@, ResizeColsCount)]
           ELSE IF panes_exist_to_the_left(T, P)
           THEN /\ terminals[P] = [FocusedBefore EXCEPT !.x_coords = Add16(@, ResizeColsCount),
                                                        !.display_cols = Sub16(@, ResizeColsCount)]
                /\ Right(terminals[P]) = Right(FocusedBefore)
           ELSE terminals = T

\* C15 witness: the focused pane touched the right edge of the viewport, had a
\* pane on its left and more than 10 columns; resize_right moved its left edge
C15_Witness ==
    /\ last_op.name = "resize_right" /\ HadFocus /\ status = "running"
    /\ InsideViewport(last_op.before.t)
    /\ ~panes_exist_to_the_right(last_op.before.t, last_op.before.active)
    /\ panes_exist_to_the_left(last_op.before.t, last_op.before.active)
    /\ FocusedBefore.display_cols > ResizeColsCount
    /\ terminals[last_op.before.active].x_coords = FocusedBefore.x_coords + ResizeColsCount
    /\ terminals[last_op.before.active].display_cols = FocusedBefore.display_cols - ResizeColsCount

\* the focused pane of the last instruction, as it is now
FocusedNow == terminals[last_op.before.active]

\* C16: resize_left, resize_up and resize_down mirror resize_right: each grows
\* the focused pane toward its own direction when a pane exists on that side
\* and only otherwise, when a pane exists on the opposite side, shrinks it
C16_ResizeSymmetric ==
    LET P == last_op.before.active
        T == last_op.before.t
    IN  /\ (last_op.name = "resize_left" /\ HadFocus)
           => IF panes_exist_to_the_left(T, P)
              THEN /\ status = "running"
                   /\ FocusedNow = [FocusedBefore EXCEPT !.x_coords = @ - ResizeColsCount,
                                                         !.display_cols = @ + ResizeColsCount]
              ELSE panes_exist_to_the_right(T, P)
                   => /\ status = "running"
                      /\ FocusedNow.display_cols = FocusedBefore.display_cols - ResizeColsCount
        /\ (last_op.name = "resize_up" /\ HadFocus)
           => IF panes_exist_above(T, P)
              THEN /\ status = "running"
                   /\ FocusedNow = [FocusedBefore EXCEPT !.y_coords = @ - ResizeRowsCount,
                                                         !.display_rows = @ + ResizeRowsCount]
              ELSE panes_exist_below(T, P)
                   => /\ status = "running"
                      /\ FocusedNow.display_rows = FocusedBefore.display_rows - ResizeRowsCount
        /\ (last_op.name = "resize_down" /\ HadFocus)
           => IF panes_exist_below(T, P)
              THEN /\ status = "running"
                   /\ FocusedNow = [FocusedBefore EXCEPT !.display_rows = @ + ResizeRowsCount]
              ELSE panes_exist_above(T, P)
                   => /\ status = "running"
                      /\ FocusedNow.display_rows = FocusedBefore.display_rows - ResizeRowsCount

\* C16 amended: when they return, P not having 2^16 - 1 columns (rows for
\* resize_down and resize_up), in u16 arithmetic: resize_left shrinks P from the right
\* (cols - 10) when a pane exists to its right and only otherwise, when a pane
\* exists to its left, grows it leftward (x - 10, cols + 10); resize_down
\* shrinks P from the top (y + 2, rows - 2) when a pane exists above and only
\* otherwise, when a pane exists below, grows it downward (rows + 2); resize_up
\* grows P upward (y - 2, rows + 2) when a pane exists above and only
\* otherwise, when a pane exists below, shrinks it from the bottom (rows - 2)
C16_ResizeOrderAmended ==
    LET P == last_op.before.active
        T == last_op.before.t
    IN  /\ (last_op.name = "resize_left" /\ HadFocus /\ status = "running"
               /\ ~OwnNeighbourInRow)
           => IF panes_exist_to_the_right(T, P)
              THEN FocusedNow = [FocusedBefore EXCEPT !.display_cols = Sub16(@, ResizeColsCount)]
              ELSE IF panes_exist_to_the_left(T, P)
              THEN FocusedNow = [FocusedBefore EXCEPT !.x_coords = Sub16(@, ResizeColsCount),
                                                      !.display_cols = Add16(@, ResizeColsCount)]
              ELSE terminals = T
        /\ (last_op.name = "resize_down" /\ HadFocus /\ status = "running"
               /\ ~OwnNeighbourInColumn)
           => IF panes_exist_above(T, P)
              THEN FocusedNow = [FocusedBefore EXCEPT !.y_coords = Add16(@, ResizeRowsCount),
                                                      !.display_rows = Sub16(@, ResizeRowsCount)]
              ELSE IF panes_exist_below(T, P)
              THEN FocusedNow = [FocusedBefore EXCEPT !.display_rows = Add16(@, ResizeRowsCount)]
              ELSE terminals = T
        /\ (last_op.name = "resize_up" /\ HadFocus /\ status = "running"
               /\ ~OwnNeighbourInColumn)
           => IF panes_exist_above(T, P)
              THEN FocusedNow = [FocusedBefore EXCEPT !.y_coords = Sub16(@, ResizeRowsCount),
                                                      !.display_rows = Add16(@, ResizeRowsCount)]
              ELSE IF panes_exist_below(T, P)
              THEN FocusedNow = [FocusedBefore EXCEPT !.display_rows = Sub16(@, ResizeRowsCount)]
              ELSE terminals = T

\* C16 witness: resize_left on a pane with panes on both sides shrank it from
\* the right and left its x where it was
C16_Witness ==
    /\ last_op.name = "resize_left" /\ HadFocus /\ status = "running"
    /\ InsideViewport(last_op.before.t)
    /\ panes_exist_to_the_left(last_op.before.t, last_op.before.active)
    /\ panes_exist_to_the_right(last_op.before.t, last_op.before.active)
    /\ FocusedNow.x_coords = FocusedBefore.x_coords
    /\ FocusedNow.display_cols /= FocusedBefore.display_cols

HorizontalResizes == {"resize_right", "resize_left"}

\* the panes the last instruction changed
Changed == {t \in Ids(last_op.before.t) \cap Ids(terminals) : terminals[t] /= last_op.before.t[t]}

\* position and length of a pane along the resized dimension, and across it
Along(p) == IF last_op.name \in HorizontalResizes
            THEN [pos |-> p.x_coords, len |-> p.display_cols]
            ELSE [pos |-> p.y_coords, len |-> p.display_rows]

Across(p) == IF last_op.name \in HorizontalResizes
             THEN [pos |-> p.y_coords, len |-> p.display_rows]
             ELSE [pos |-> p.x_coords, len |-> p.display_cols]

Step == IF last_op.name \in HorizontalResizes THEN ResizeColsCount ELSE ResizeRowsCount

\* pane t ended at the border line b and now ends at b2, its start unchanged
MovedEnd(t, b, b2) ==
    LET old == Along(last_op.before.t[t])
        new == Along(terminals[t])
    IN  old.pos + old.len = b /\ new.pos = old.pos /\ new.pos + new.len = b2

\* pane t started right after the border line b and now starts right after b2,
\* its end unchanged
MovedStart(t, b, b2) ==
    LET old == Along(last_op.before.t[t])
        new == Along(terminals[t])
    IN  old.pos = b + 1 /\ new.pos = b2 + 1 /\ new.pos + new.len = old.pos + old.len

\* the border line b moved to b2: every changed pane lies along it, keeps its
\* extent across it and follows it; panes on both sides did
BorderMoved(b, b2) ==
    /\ \A t \in Changed :
          /\ Across(terminals[t]) = Across(last_op.before.t[t])
          /\ MovedEnd(t, b, b2) \/ MovedStart(t, b, b2)
    /\ \E t \in Changed : MovedEnd(t, b, b2)
    /\ \E t \in Changed : MovedStart(t, b, b2)

\* the resize changed a pane and took no pane to zero or fewer columns or rows
Feasible ==
    /\ last_op.name \in ResizeOps /\ HadFocus /\ status = "running"
    /\ terminals /= last_op.before.t
    /\ ~Infeasible(last_op.name, ScreenBefore)

\* C17: a feasible resize moves one border segment by exactly the step (10
\* columns, 2 rows): every pane keeps its rectangle or changes by the step in
\* the resized dimension only; the focused pane and its aligned strip change in
\* one sense, the neighbours across the moved border in the opposite sense
C17_ResizeMovesOneBorder ==
    Feasible
    => /\ Ids(terminals) = Ids(last_op.before.t)
       /\ last_op.before.active \in Changed
       /\ \E b \in 0..(FullScreenCols + FullScreenRows) :
             BorderMoved(b, b + Step) \/ BorderMoved(b, b - Step)

\* -------------------------------------------------------- focus, claim 18
RECURSIVE MoveFocusTimes(_, _)
\* n consecutive move_focus instructions
MoveFocusTimes(S, n) == IF n = 0 THEN S ELSE MoveFocusTimes(move_focus(S), n - 1)

\* the next larger pane-id after a, or the smallest when a is the largest
NextId(ids, a) ==
    IF \E t \in ids : t > a
    THEN CHOOSE t \in ids : t > a /\ \A u \in ids : u > a => t <= u
    ELSE CHOOSE t \in ids : \A u \in ids : t <= u

\* C18: move_focus on a non-empty screen focuses the pane with the next larger
\* pane-id, or the smallest when the focused pane has the largest; it changes
\* no rectangle; k consecutive calls on k panes visit every pane once and
\* return the focus to where it started
C18_MoveFocusCycles ==
    /\ (last_op.name = "move_focus" /\ Ids(last_op.before.t) /= {})
       => /\ status = "running"
          /\ terminals = last_op.before.t
          /\ active_terminal = NextId(Ids(terminals), last_op.before.active)
    /\ (status = "running" /\ Ids(terminals) /= {})
       => LET k == Cardinality(Ids(terminals))
          IN  /\ \A i \in 1..k : /\ ~MoveFocusTimes(Screen, i).panic
                                 /\ MoveFocusTimes(Screen, i).t = terminals
              /\ {MoveFocusTimes(Screen, i).active : i \in 1..k} = Ids(terminals)
              /\ MoveFocusTimes(Screen, k).active = active_terminal

\* C18 witness: with three or more panes, move_focus went from the largest
\* pane-id round to the smallest
C18_Witness ==
    /\ last_op.name = "move_focus" /\ status = "running"
    /\ Cardinality(Ids(terminals)) >= 3
    /\ \A t \in Ids(terminals) : t <= last_op.before.active /\ active_terminal <= t

\* ------------------------------------------------------ close, claims 19-20
CloseOps == {"close_pane", "close_focused_pane"}

\* the pane the last instruction was asked to close
ClosedId == IF last_op.name = "close_pane" THEN last_op.id ELSE last_op.before.active

\* the last instruction was a close of a pane of the map
Closing == last_op.name \in CloseOps /\ ClosedId \in Ids(last_op.before.t)

\* the aligning strips of the closed pane, in the order left, right, above, below
ClosedStrips ==
    <<terminals_to_the_left_between_aligning_borders(last_op.before.t, ClosedId),
      terminals_to_the_right_between_aligning_borders(last_op.before.t, ClosedId),
      terminals_above_between_aligning_borders(last_op.before.t, ClosedId),
      terminals_below_between_aligning_borders(last_op.before.t, ClosedId)>>

\* the sides that have an aligning strip: 1 left, 2 right, 3 above, 4 below
SidesWithStrip == {i \in 1..4 : ClosedStrips[i].some}

\* the panes of side i's strip are the panes that changed, and the closed pane is gone
SideUsed(i) ==
    /\ ClosedId \notin Ids(terminals)
    /\ Ids(terminals) = Ids(last_op.before.t) \ {ClosedId}
    /\ Changed = SeqSet(ClosedStrips[i].ids)

\* C19: close_pane(id) gives the closed pane's area to exactly one side's
\* aligning strip, chosen in the order left, right, above, below: a later side
\* is used only when no earlier side has an aligning strip
C19_CloseSideOrder ==
    Closing
    => /\ status = "running"
       /\ IF SidesWithStrip = {}
          THEN terminals = last_op.before.t
          ELSE /\ SideUsed(Min(SidesWithStrip))
               /\ \A i \in 1..4 : SideUsed(i) => \A j \in 1..(i - 1) : j \notin SidesWithStrip

\* the pane that was closed, as it was
ClosedBefore == last_op.before.t[ClosedId]

\* the last instruction was a close that gave its pane to a strip
Closed ==
    /\ Closing /\ status = "running"
    /\ ClosedId \notin Ids(terminals) /\ SidesWithStrip /= {}

\* the side whose strip absorbed the closed pane, and the strip's members that remain
UsedSide == Min(SidesWithStrip)
UsedStrip == SeqSet(ClosedStrips[UsedSide].ids) \ {ClosedId}

RECURSIVE ExtentSum(_, _, _)
\* the sum of the members' rows (side 1, 2) or columns (side 3, 4)
ExtentSum(T, ids, side) ==
    IF ids = {} THEN 0
    ELSE LET t == Min(ids)
         IN  (IF side \in {1, 2} THEN T[t].display_rows ELSE T[t].display_cols)
                 + ExtentSum(T, ids \ {t}, side)

\* border cells of the old layout that lie inside a pane of the strip now
AbsorbedBorderCells ==
    Cardinality({c \in ViewportCells :
        /\ BorderCell(last_op.before.t, c)
        /\ \E t \in UsedStrip : Covers(terminals[t], c)})

GrowBy(side) ==
    IF side \in {1, 2} THEN Add16(ClosedBefore.display_cols, 1)
    ELSE Add16(ClosedBefore.display_rows, 1)

\* no size wrapped when the strip grew
GrewWithoutWrap(side, strip, by) ==
    /\ by = (IF side \in {1, 2} THEN ClosedBefore.display_cols
             ELSE ClosedBefore.display_rows) + 1
    /\ \A t \in strip :
          (IF side \in {1, 2} THEN last_op.before.t[t].display_cols
           ELSE last_op.before.t[t].display_rows) + by < U16

Max(S) == CHOOSE a \in S : \A b \in S : b <= a

\* C21: when close_pane(P) removes P, the focus, if it was on P, is on the last
\* member (the highest pane-id) of the strip that absorbed P, and is unchanged
\* if it was on another pane
C21_CloseFocus ==
    Closed
    => IF last_op.before.active = ClosedId
       THEN active_terminal = Max(SeqSet(ClosedStrips[UsedSide].ids))
       ELSE active_terminal = last_op.before.active

\* C21 witness: the focused pane was closed into a strip of two members
C21_Witness ==
    /\ Closed /\ last_op.before.active = ClosedId
    /\ Cardinality(UsedStrip) = 2
    /\ active_terminal = Max(UsedStrip)

\* the close left the pane map, the rectangles and the focus as they were
CloseWasNoOp == terminals = last_op.before.t /\ active_terminal = last_op.before.active

\* C22: close_pane(id) of an existing pane is a no-op if and only if id is the
\* only pane on screen; with two or more panes one of the four sides has an
\* aligning strip and the pane is removed
C22_CloseNoOpOnlyForLastPane ==
    Closing
    => /\ CloseWasNoOp <=> Cardinality(Ids(last_op.before.t)) = 1
       /\ Cardinality(Ids(last_op.before.t)) >= 2
          => SidesWithStrip /= {} /\ ClosedId \notin Ids(terminals)

\* ------------------------------------------------------------------ C23
\* the panes of the map whose rectangle the last instruction changed
Reshaped ==
    {id \in Ids(terminals) \cap Ids(last_op.before.t) : terminals[id] /= last_op.before.t[id]}

\* C23: when an instruction returns, every pane whose rectangle it changed, and
\* every pane whose flag was set before it, either has should_render set or had
\* its body written by the render of that instruction
C23_MutationSetsShouldRender ==
    status = "running"
    => (Reshaped \cup (last_op.before.dirty \cap Ids(terminals))) \subseteq (should_render \cup emitted)

\* C23 witness: a resize changed the rectangle of a pane whose flag was clear, and
\* the render that followed wrote it
C23_Witness ==
    /\ status = "running"
    /\ last_op.name \in {"resize_right", "resize_left", "resize_down", "resize_up"}
    /\ \E id \in Reshaped : id \notin last_op.before.dirty /\ id \in emitted

\* ------------------------------------------------------------------ C24
\* the events that change the grid or the cursor
MutatingEvents ==
    {e \in {VtePrint(c) : c \in Characters} \cup {VteExecute(byte) : byte \in {8, 10, 13}} \cup CsiEvents :
        e.kind = "CsiDispatch" => e.c \in {"K", "J", "H", "A", "C", "D", "M", "L", "r"}}

\* the last event was one of those, was handled, and changed the grid or the cursor
EventMutated ==
    /\ status = "running"
    /\ last_event.event \in MutatingEvents
    /\ pane.scroll /= last_event.before.scroll

\* C24: a pane whose grid or cursor an event has changed has should_render set
C24_EventSetsShouldRender == EventMutated => pane.should_render

\* ------------------------------------------------------------------ C25
\* the step is a Render instruction that returned
RenderStep == last_op'.name = "render" /\ ops' = ops + 1 /\ status' = "running"

\* C25: a render writes the body of exactly the panes whose flag is set and
\* clears every flag, and a render that follows a render writes no body
C25_RenderIdempotent ==
    [][RenderStep
       => /\ emitted' = should_render
          /\ should_render' = {}
          /\ last_op.name = "render" => emitted' = {}]_vars

\* C25 witness: a render of three panes, none of them dirty, wrote nothing
C25_Witness ==
    /\ last_op.name = "render" /\ status = "running"
    /\ Cardinality(Ids(terminals)) = 3
    /\ last_op.before.dirty = {}
    /\ emitted = {}

\* ------------------------------------------------------------------ C26
\* the last event was Execute(byte) and it was handled
Executed(byte) ==
    /\ status = "running"
    /\ last_event.event = VteExecute(byte)

\* C26: Execute(0x0A) adds a canonical line and leaves pending_styles without
\* any style; Execute(0x0D) puts the cursor in column 0 and Execute(0x08) moves
\* it one column back, both changing nothing but the cursor; any other byte
\* leaves the pane as it was; a printed character carries the styles pending
\* when it is printed, hence none from before the last newline
C26_Execute ==
    LET before == last_event.before
    IN  /\ Executed(10)
           => /\ pane.scroll = add_canonical_line(before.scroll, before.display_rows)
              /\ pane.pending_styles = NewStyles
              /\ pane = [before EXCEPT !.scroll = pane.scroll, !.pending_styles = NewStyles,
                                       !.should_render = TRUE]
        /\ Executed(13)
           => pane = [before EXCEPT !.scroll.cursor_x = 0]
        /\ Executed(8)
           => pane = [before EXCEPT !.scroll.cursor_x = IF @ = 0 THEN 0 ELSE @ - 1]
        /\ \A byte \in ExecuteBytes \ {8, 10, 13} : Executed(byte) => pane = before
        /\ (status = "running" /\ last_event.event.kind = "Print")
           => pane.scroll.characters[Len(pane.scroll.characters)].styles = before.pending_styles

\* C26 witness: a newline arrived while a style was pending and cleared it
C26_Witness ==
    /\ Executed(10)
    /\ last_event.before.pending_styles /= NewStyles
    /\ pane.pending_styles = NewStyles
    /\ pane.scroll.canonical_lines = last_event.before.scroll.canonical_lines + 1

\* C26 witness of the cursor moves: a backspace moved the cursor off a later
\* column with a style pending, and the style is still pending
C26_WitnessBackspace ==
    /\ Executed(8)
    /\ last_event.before.scroll.cursor_x = 1
    /\ pane.scroll.cursor_x = 0
    /\ pane.pending_styles /= NewStyles

\* ------------------------------------------------------------------ C27
\* the named colours in the order of the codes 30..37 and 40..47
ColourOrder == <<"Black", "Red", "Green", "Yellow", "Blue", "Magenta", "Cyan", "White">>

\* the last event was CSI m and it was handled
Styled == status = "running" /\ last_event.event.kind = "CsiDispatch" /\ last_event.event.c = "m"

\* C27: CSI m with leading parameter 30..37 sets the pending foreground, and with
\* 40..47 the pending background, to the named colour of that position, and
\* changes nothing else; CSI m with no parameter or leading parameter 0 resets
\* every style field
C27_NamedColours ==
    LET before == last_event.before
        params == last_event.event.params
    IN  Styled
        => /\ (params /= <<>> /\ params[1] \in 30..37)
              => pane = [before EXCEPT !.pending_styles.foreground =
                                           NamedColor(ColourOrder[params[1] - 29])]
           /\ (params /= <<>> /\ params[1] \in 40..47)
              => pane = [before EXCEPT !.pending_styles.background =
                                           NamedColor(ColourOrder[params[1] - 39])]
           /\ (params = <<>> \/ params[1] = 0)
              => pane = [before EXCEPT !.pending_styles = [f \in StyleFields |-> Reset]]

\* C27 witness: CSI 45 m after CSI 33 m: the background is Magenta and the
\* foreground is still Yellow
C27_Witness ==
    /\ Styled /\ last_event.event.params = <<45>>
    /\ last_event.before.pending_styles.foreground = NamedColor("Yellow")
    /\ pane.pending_styles.foreground = NamedColor("Yellow")
    /\ pane.pending_styles.background = NamedColor("Magenta")

\* C27 witness of the reset: CSI m without parameter with a colour pending
C27_WitnessReset ==
    /\ Styled /\ last_event.event.params = <<>>
    /\ last_event.before.pending_styles.background = NamedColor("Cyan")
    /\ pane.pending_styles.background = Reset

\* ------------------------------------------------------------------ C28
\* the finals csi_dispatch has a branch for
KnownFinals == {"m", "C", "D", "A", "H", "K", "J", "r", "M", "L",
                "l", "h", "t", "n", "c", "q", "d", "X", "G"}

\* the last event was a CSI with a final outside KnownFinals
UnknownCsi == last_event.event.kind = "CsiDispatch" /\ last_event.event.c \notin KnownFinals

\* C28: a CSI with a final that has no branch ends the run with a panic, and the
\* pane is then as it was before the event
C28_UnknownCsiFails ==
    UnknownCsi
    => /\ status = "aborted"
       /\ pane.panic
       /\ [pane EXCEPT !.panic = FALSE] = last_event.before

\* C28 witness: CSI z arrived at a pane that had printed and moved its cursor
C28_Witness ==
    /\ UnknownCsi /\ last_event.event.c = "z"
    /\ status = "aborted"
    /\ Len(pane.scroll.characters) = 1
    /\ pane.scroll.cursor_y = 2

\* ------------------------------------------------------------------ C29
\* the last event was CSI H
Goto == last_event.event.kind = "CsiDispatch" /\ last_event.event.c = "H"

\* C29: CSI H is handled without abort and without underflow for every
\* parameter list, and puts the cursor on row param0, column 0 when given one
\* parameter and on row param0 - 1, column param1 - 1 when given two
C29_Goto ==
    LET before == last_event.before
        params == last_event.event.params
    IN  Goto
        => /\ status = "running"
           /\ ~pane.ovf
           /\ Len(params) = 1
              => pane.scroll = move_cursor_to(before.scroll, params[1], 0,
                                              before.display_cols, before.display_rows)
           /\ Len(params) = 2
              => pane.scroll = move_cursor_to(before.scroll, params[1] - 1, params[2] - 1,
                                              before.display_cols, before.display_rows)

\* ------------------------------------------------------------------ C30
\* the size the last notification for id carried is the size of its pane
SizeKnown(id) ==
    /\ id \in DOMAIN notified
    /\ notified[id] = <<terminals[id].display_cols, terminals[id].display_rows>>

\* C30: for every pane of the map the last set_terminal_size_using_fd sent
\* for its id carries the columns and rows the pane has now
C30_LastNotificationIsCurrentSize == \A id \in Ids(terminals) : SizeKnown(id)

\* C30 witness: a split: the pane that was split and the new pane have both
\* been told a size they did not have before
C30_Witness ==
    /\ status = "running"
    /\ last_op.name \in {"horizontal_split", "vertical_split", "new_pane"}
    /\ \E id \in Ids(last_op.before.t) :
           /\ id \in Ids(terminals) /\ last_op.id \in Ids(terminals)
           /\ terminals[id] /= last_op.before.t[id]
           /\ SizeKnown(id) /\ SizeKnown(last_op.id)
           /\ notified[id] /= notified[last_op.id]

\* ------------------------------------------------------------------ C31
\* the last instruction was a resize_up that returned from
\* reduce_pane_and_surroundings_up: the focused pane had no pane above it and
\* had one below it
ReducedUp ==
    /\ last_op.name = "resize_up" /\ HadFocus /\ status = "running"
    /\ ~panes_exist_above(last_op.before.t, last_op.before.active)
    /\ panes_exist_below(last_op.before.t, last_op.before.active)

\* the panes reduce_pane_and_surroundings_up(P, n) works on: the retained panes
\* directly below P and the members of its two bottom-aligned strips
UpBand ==
    LET T == last_op.before.t
        P == last_op.before.active
        all_below == SeqSet(terminal_ids_directly_below(T, P))
        borders == {T[t].x_coords : t \in all_below}
        left == bottom_aligned_contiguous_panes_to_the_left(T, P, borders)
        right == bottom_aligned_contiguous_panes_to_the_right(T, P, borders)
    IN  [below  |-> {t \in all_below : pane_is_between_vertical_borders(T, t, left.border, right.border)},
         strips |-> SeqSet(left.ids) \cup SeqSet(right.ids)]

\* the below panes grew up by n, the strip members shrank up by n and end where
\* P ends, every other pane but P is as it was
SurroundingsMovedUp(band, n) ==
    LET T == last_op.before.t
        P == last_op.before.active
    IN  /\ Ids(terminals) = Ids(T)
        /\ \A t \in band.below :
               terminals[t] = [T[t] EXCEPT !.y_coords = Sub16(@, n), !.display_rows = Add16(@, n)]
        /\ \A t \in band.strips :
               /\ terminals[t] = [T[t] EXCEPT !.display_rows = Sub16(@, n)]
               /\ Bottom(terminals[t]) = Bottom(terminals[P])
        /\ \A t \in Ids(T) \ (band.below \cup band.strips \cup {P}) : terminals[t] = T[t]

\* C31: reduce_pane_and_surroundings_up(P, n) moves P's top edge down by n as
\* it shrinks P, grows each retained pane directly below P up by n, and shrinks
\* each member of P's bottom-aligned strips up by n, its bottom edge staying
\* aligned with P's
C31_ReduceUp ==
    ReducedUp
    => LET band == UpBand
           P == last_op.before.active
       IN  /\ terminals[P] = [FocusedBefore EXCEPT !.y_coords = Add16(@, ResizeRowsCount),
                                                   !.display_rows = Sub16(@, ResizeRowsCount)]
           /\ SurroundingsMovedUp(band, ResizeRowsCount)

\* C31 amended: P keeps its top edge and loses n rows at its bottom; the
\* retained panes below grow up by n and the strip members shrink up by n, in
\* 16-bit arithmetic
C31_ReduceUpAmended ==
    ReducedUp
    => LET band == UpBand
           P == last_op.before.active
       IN  /\ terminals[P] = [FocusedBefore EXCEPT !.display_rows = Sub16(@, ResizeRowsCount)]
           /\ SurroundingsMovedUp(band, ResizeRowsCount)

\* C31 witness: P had a strip member and a retained pane below, and lost two
\* rows at its bottom
C31_Witness ==
    /\ ReducedUp
    /\ UpBand.strips /= {} /\ UpBand.below /= {}
    /\ FocusedNow.y_coords = FocusedBefore.y_coords
    /\ FocusedNow.display_rows = FocusedBefore.display_rows - ResizeRowsCount
    /\ FocusedNow.display_rows >= 1

\* ------------------------------------------------------------------ C32
\* the last instruction was a resize that returned and changed the focused pane
Resized ==
    /\ last_op.name \in ResizeOps /\ HadFocus /\ status = "running"
    /\ last_op.before.active \in Changed

\* pane t is longer along the resized dimension than it was
Grew(t) == Along(terminals[t]).len > Along(last_op.before.t[t]).len

\* the changed panes that changed in the sense of the focused pane: the pane
\* and its strips; the others are the neighbours across the moved border
SameSense == {t \in Changed : Grew(t) = Grew(last_op.before.active)}

\* C32: every resized neighbour across the moved border lies within the band:
\* its extent along the border is inside the combined extent of the focused
\* pane and its strips
C32_ResizeBand ==
    Resized
    => LET T == last_op.before.t
           same == SameSense
           from == Min({Across(T[t]).pos : t \in same})
           to == Max({Across(T[t]).pos + Across(T[t]).len : t \in same})
       IN  \A t \in Changed \ same :
               /\ from <= Across(T[t]).pos
               /\ Across(T[t]).pos + Across(T[t]).len <= to

\* ------------------------------------------------------------------ C33
\* the focused pane P has panes directly below it
FocusedAbove ==
    /\ active_terminal \in Ids(terminals)
    /\ terminal_ids_directly_below(terminals, active_terminal) /= <<>>

\* what the claim has bottom_aligned_contiguous_panes_to_the_left return: strip
\* is the whole contiguous strip, a cut line is a column where an edge of a
\* strip member meets an edge of a pane below P
LeftStripContract(T, P, below, result) ==
    LET strip == SeqSet(bottom_aligned_contiguous_panes_to_the_left(T, P, {}).ids)
        edges == {T[b].x_coords : b \in below} \cup {Right(T[b]) + 1 : b \in below}
        cuts == ({T[m].x_coords : m \in strip} \cup {Right(T[m]) + 1 : m \in strip}) \cap edges
    IN  IF strip = {} \/ T[P].x_coords \in cuts
        THEN result = [border |-> T[P].x_coords, ids |-> <<>>]
        ELSE /\ cuts /= {}
             /\ result.border = Max(cuts)
             /\ SeqSet(result.ids) = {m \in strip : T[m].x_coords >= Max(cuts)}

\* the same for bottom_aligned_contiguous_panes_to_the_right, whose borders are
\* the last column of a pane
RightStripContract(T, P, below, result) ==
    LET strip == SeqSet(bottom_aligned_contiguous_panes_to_the_right(T, P, {}).ids)
        edges == {T[b].x_coords - 1 : b \in below} \cup {Right(T[b]) : b \in below}
        cuts == ({T[m].x_coords - 1 : m \in strip} \cup {Right(T[m]) : m \in strip}) \cap edges
    IN  IF strip = {} \/ Right(T[P]) \in cuts
        THEN result = [border |-> Right(T[P]), ids |-> <<>>]
        ELSE /\ cuts /= {}
             /\ result.border \in {Min(cuts), Min(cuts) + 1}
             /\ SeqSet(result.ids) = {m \in strip : Right(T[m]) <= Min(cuts)}

\* C33: for the focused pane the strip helpers return the cut line nearest to
\* it and the strip members between it and that line, or its own edge and no
\* member when the strip is empty or its own edge is a cut line
C33_StripBorder ==
    FocusedAbove
    => LET T == terminals
           P == active_terminal
           below == SeqSet(terminal_ids_directly_below(T, P))
           borders == {T[b].x_coords : b \in below}
       IN  /\ LeftStripContract(T, P, below, bottom_aligned_contiguous_panes_to_the_left(T, P, borders))
           /\ RightStripContract(T, P, below, bottom_aligned_contiguous_panes_to_the_right(T, P, borders))

\* ------------------------------------------- mirror images, claim 34
\* the layout T reflected in the horizontal middle line of the viewport
FlipV(T) == [t \in Ids(T) |-> [T[t] EXCEPT !.y_coords = Sub16(FullScreenRows, Bottom(T[t]))]]

\* the layout T reflected in the vertical middle line of the viewport
FlipH(T) == [t \in Ids(T) |-> [T[t] EXCEPT !.x_coords = Sub16(FullScreenCols, Right(T[t]))]]

\* the layout T with the two axes exchanged
Transposed(T) ==
    [t \in Ids(T) |-> Pane(T[t].y_coords, T[t].x_coords, T[t].display_rows, T[t].display_cols)]

\* the screen S with the layout T
On(S, T) == [S EXCEPT !.t = T]

\* a and b both lack the neighbour or both have it, and when neither wrapped a u16
\* the layout of a is image
MirrorImage(a, b, image) ==
    /\ a.panic = b.panic
    /\ (~a.panic /\ ~a.ovf /\ ~b.ovf) => a.t = image

\* the eight operators applied to pane id: each vertical one against its reflection,
\* each horizontal one against its reflection, and the horizontal ones against the
\* vertical ones on the transposed layout (whose panes end at or before column
\* FullScreenRows, so the far border FullScreenCols keeps every one of them, as the
\* width of a transposed viewport would)
Mirrors(S, id) ==
    LET T == S.t
        up == reduce_pane_and_surroundings_up(S, id, ResizeRowsCount)
        grow_up == increase_pane_and_surroundings_up(S, id, ResizeRowsCount)
        down == reduce_pane_and_surroundings_down(On(S, FlipV(T)), id, ResizeRowsCount)
        grow_down == increase_pane_and_surroundings_down(On(S, FlipV(T)), id, ResizeRowsCount)
        left == reduce_pane_and_surroundings_left(S, id, ResizeColsCount)
        grow_left == increase_pane_and_surroundings_left(S, id, ResizeColsCount)
        right == reduce_pane_and_surroundings_right(On(S, FlipH(T)), id, ResizeColsCount)
        grow_right == increase_pane_and_surroundings_right(On(S, FlipH(T)), id, ResizeColsCount)
        t_up == reduce_pane_and_surroundings_up(On(S, Transposed(T)), id, ResizeColsCount)
        t_grow_up == increase_pane_and_surroundings_up(On(S, Transposed(T)), id, ResizeColsCount)
    IN  /\ MirrorImage(up, down, FlipV(down.t))
        /\ MirrorImage(grow_up, grow_down, FlipV(grow_down.t))
        /\ MirrorImage(left, right, FlipH(right.t))
        /\ MirrorImage(grow_left, grow_right, FlipH(grow_right.t))
        /\ MirrorImage(left, t_up, Transposed(t_up.t))
        /\ MirrorImage(grow_left, t_grow_up, Transposed(t_grow_up.t))

\* C34: the four directions of the surroundings algorithm are mirror images: on every
\* layout inside the viewport and for every pane, reducing (increasing) the pane and
\* its surroundings up gives the reflection of reducing (increasing) them down on the
\* reflected layout, left gives the reflection of right, and left gives the
\* transposition of up on the transposed layout
C34_MirrorImages ==
    InsideViewport(terminals) => \A id \in Ids(terminals) : Mirrors(Screen, id)

\* six panes inside the viewport, and the focused pane has a neighbour below and a
\* strip to its left, so that reducing it up moves three kinds of pane
C34_Witness ==
    /\ status = "running"
    /\ InsideViewport(terminals)
    /\ Cardinality(Ids(terminals)) = 6
    /\ active_terminal \in Ids(terminals)
    /\ terminal_ids_directly_below(terminals, active_terminal) /= <<>>
    /\ bottom_aligned_contiguous_panes_to_the_left(terminals, active_terminal, {}).ids /= <<>>
    /\ LET up == reduce_pane_and_surroundings_up(Screen, active_terminal, ResizeRowsCount)
       IN  ~up.panic /\ ~up.ovf /\ up.t /= terminals

\* ------------------------------------------- the absorbing strip, claim 35
\* the strip the last close gave the closed pane to, as the helper returned it
AbsorbingStrip == SeqSet(ClosedStrips[UsedSide].ids)

\* where pane p starts and how far it extends along the closed pane's edge on the used
\* side: rows for a strip to the left or right, columns for a strip above or below
AlongEdge(p) ==
    IF UsedSide \in {1, 2} THEN [pos |-> p.y_coords, len |-> p.display_rows]
    ELSE [pos |-> p.x_coords, len |-> p.display_cols]

\* the members lie within the closed pane's edge, one starts where the edge starts, each
\* ends where the edge ends or one border cell before another member starts, no two
\* start at the same place, and their extents and the border cells between them add up
\* to the edge's length
CoversEdge(T, P, strip) ==
    LET edge == AlongEdge(P)
        first == edge.pos
        last == edge.pos + edge.len
        E(t) == AlongEdge(T[t])
    IN  /\ \A t \in strip : E(t).pos >= first /\ E(t).pos + E(t).len <= last
        /\ \E t \in strip : E(t).pos = first
        /\ \A t \in strip : \/ E(t).pos + E(t).len = last
                            \/ \E u \in strip : E(u).pos = E(t).pos + E(t).len + 1
        /\ \A t, u \in strip : E(t).pos = E(u).pos => t = u
        /\ ExtentSum(T, strip, UsedSide) + Cardinality(strip) - 1 = edge.len

\* C35: whenever close_pane(P) absorbs P into a side strip, the strip is non-empty, P is
\* not one of its members, and its members exactly cover P's edge on that side: their
\* extents and the single border cells between them run from P's first coordinate to
\* its last
C35_StripCoversEdge ==
    Closed
    => /\ AbsorbingStrip /= {}
       /\ ClosedId \notin AbsorbingStrip
       /\ CoversEdge(last_op.before.t, ClosedBefore, AbsorbingStrip)

\* ------------------------------------------- split then close, claim 36
\* the last instruction was a vertical_split that completed, and this step handles
\* close_pane for the pane it made and completes too
SplitThenClose ==
    /\ last_op.name = "vertical_split" /\ status = "running"
    /\ last_op'.name = "close_pane" /\ last_op'.id = last_op.id /\ status' = "running"

\* C36: vertical_split(new) immediately followed by close_pane(new) restores the
\* layout: every pane has the same x, y, cols and rows as before the split, the pane
\* map has the same keys, and focus is back on the pane that was split
C36_SplitThenCloseRestores ==
    [][SplitThenClose
       => /\ terminals' = last_op.before.t
          /\ active_terminal' = last_op.before.active]_vars

\* the split divided a pane of a non-empty screen and closed none to make room
SplitDividedAPane ==
    /\ Ids(last_op.before.t) /= {}
    /\ Ids(terminals) = Ids(last_op.before.t) \cup {last_op.id}

\* C36 (amended): when the screen held a pane and vertical_split(new) closed none to
\* stay within max_panes, close_pane(new) immediately after it restores the layout:
\* same keys, same x, y, cols and rows, and focus back on the pane that was split
C36_SplitThenCloseAmended ==
    [][(SplitThenClose /\ SplitDividedAPane)
       => /\ terminals' = last_op.before.t
          /\ active_terminal' = last_op.before.active]_vars

\* a close of the focused pane of three or more gave its columns and the border to
\* the pane directly left of it, which has the same rows and is focused now
C36_Witness ==
    /\ last_op.name = "close_pane" /\ status = "running"
    /\ last_op.id = last_op.before.active
    /\ last_op.id \in Ids(last_op.before.t) /\ last_op.id \notin Ids(terminals)
    /\ Cardinality(Ids(terminals)) >= 2
    /\ active_terminal \in Ids(terminals)
    /\ LET N == last_op.before.t[last_op.id]
           A == last_op.before.t[active_terminal]
       IN  /\ A.y_coords = N.y_coords /\ A.display_rows = N.display_rows
           /\ A.x_coords + A.display_cols + 1 = N.x_coords
           /\ terminals[active_terminal] =
                 [A EXCEPT !.display_cols = @ + N.display_cols + 1]

\* ------------------------------------------- resize there and back, claim 37
\* the last instruction was the resize named first, handled with the focus on a pane
\* of the map, and it was feasible and completed; this step handles the resize named
\* second, which is feasible and completes too
ThereAndBack(first, second) ==
    /\ last_op.name = first /\ status = "running" /\ HadFocus
    /\ ~Infeasible(first, ScreenBefore)
    /\ last_op'.name = second /\ status' = "running"
    /\ ~Infeasible(second, Screen)

\* the pane focused before the last instruction had a pane directly right of it
HadPaneToTheRight ==
    terminal_ids_directly_right_of(last_op.before.t, last_op.before.active) /= <<>>

\* the pane focused before the last instruction had a pane directly above it
HadPaneAbove ==
    terminal_ids_directly_above(last_op.before.t, last_op.before.active) /= <<>>

\* C37: for a focused pane that has a pane to its right, resize_right immediately
\* followed by resize_left restores every pane's x, y, cols and rows, and for a
\* focused pane that has a pane above, resize_up immediately followed by
\* resize_down does, whenever both steps are feasible
C37_ResizeThereAndBack ==
    [][/\ (ThereAndBack("resize_right", "resize_left") /\ HadPaneToTheRight)
          => terminals' = last_op.before.t
       /\ (ThereAndBack("resize_up", "resize_down") /\ HadPaneAbove)
          => terminals' = last_op.before.t]_vars

\* a feasible resize_right of a focused pane with a pane to its right has been
\* handled, and resize_left is feasible now and gives the layout before both
C37_Witness ==
    /\ last_op.name = "resize_right" /\ status = "running" /\ HadFocus
    /\ HadPaneToTheRight
    /\ ~Infeasible("resize_right", ScreenBefore)
    /\ terminals /= last_op.before.t
    /\ ~Infeasible("resize_left", Screen)
    /\ LET back == resize_left(Screen)
       IN  ~back.panic /\ back.t = last_op.before.t

\* the same for resize_up of a focused pane with a pane above, and resize_down
C37_WitnessUp ==
    /\ last_op.name = "resize_up" /\ status = "running" /\ HadFocus
    /\ HadPaneAbove
    /\ ~Infeasible("resize_up", ScreenBefore)
    /\ terminals /= last_op.before.t
    /\ ~Infeasible("resize_down", Screen)
    /\ LET back == resize_down(Screen)
       IN  ~back.panic /\ back.t = last_op.before.t

\* ------------------------------------------- nothing to act on, claim 38
\* the instructions that act on the focused pane or on a pane of the map
ActingOnAPane ==
    ResizeOps \cup {"move_focus", "close_pane", "close_focused_pane", "write_character",
                    "scroll_up", "scroll_down", "clear_scroll"}

\* the last instruction completed and left the map, the focus and the render flags
\* as they were, wrote no frame and no byte and sent no ClosePane
WasNoOp ==
    /\ status = "running"
    /\ terminals = last_op.before.t
    /\ active_terminal = last_op.before.active
    /\ should_render = last_op.before.dirty
    /\ emitted = {} /\ written = <<>> /\ sent = <<>>

\* C38: on an empty screen resize_left/right/up/down, move_focus, close_pane,
\* close_focused_pane, write_to_active_terminal and the scroll operations are
\* no-ops that neither abort, render nor send a ClosePane notification; and on a
\* screen with exactly one pane the four resize operations leave that pane's
\* rectangle unchanged
C38_NothingToActOn ==
    /\ (last_op.name \in ActingOnAPane /\ Ids(last_op.before.t) = {}) => WasNoOp
    /\ (last_op.name \in ResizeOps /\ Cardinality(Ids(last_op.before.t)) = 1)
       => (status = "running" /\ terminals = last_op.before.t)

\* a scroll instruction was handled on the empty screen and did nothing
C38_Witness ==
    /\ last_op.name = "scroll_up" /\ Ids(last_op.before.t) = {}
    /\ WasNoOp /\ terminals = EmptyMap /\ active_terminal = NoPane

\* a resize was handled on a screen of one pane and left its rectangle alone
C38_WitnessOnePane ==
    /\ last_op.name = "resize_right" /\ Cardinality(Ids(last_op.before.t)) = 1
    /\ status = "running" /\ terminals = last_op.before.t

\* ------------------------------------------- neighbours, claim 39
\* the focused pane has a pane directly beyond each of its edges that is not an edge
\* of the viewport, by the tests the resizes make
FocusedHasNeighbours ==
    LET T == terminals
        P == active_terminal
    IN  /\ panes_exist_to_the_right(T, P) => terminal_ids_directly_right_of(T, P) /= <<>>
        /\ panes_exist_to_the_left(T, P) => terminal_ids_directly_left_of(T, P) /= <<>>
        /\ panes_exist_above(T, P) => terminal_ids_directly_above(T, P) /= <<>>
        /\ panes_exist_below(T, P) => terminal_ids_directly_below(T, P) /= <<>>

\* C39: in every reachable state, whenever the focused pane does not reach the
\* viewport's right edge at least one pane is directly right of it, and likewise for
\* the left, top and bottom edges, so no resize aborts on a missing neighbour or strip
\* member
C39_NeighboursExist ==
    (status = "running" /\ active_terminal \in Ids(terminals))
    => /\ FocusedHasNeighbours
       /\ \A name \in ResizeOps : ~ResizeResult(name, Screen).panic

\* ------------------------------------------- the pane new_pane splits, claim 40
\* a * b as <<high, low>> with a * b = high * 65536 + low, for a < 2^18 and b < 2^16
Wide(a, b) ==
    LET x == a * (b \div 256)
        low == (x % 256) * 256 + a * (b % 256)
    IN  <<x \div 256 + low \div U16, low % U16>>

\* the first of two such products is larger
WideGreater(m, n) == m[1] > n[1] \/ (m[1] = n[1] /\ m[2] > n[2])

RECURSIVE WideFold(_, _, _)
\* the fold of new_pane over the map in key order with (rows * 4) * cols computed in
\* unbounded integers, acc = (size, id)
WideFold(T, ids, acc) ==
    IF ids = <<>> THEN acc
    ELSE LET p == T[Head(ids)]
             terminal_size == Wide(p.display_rows * CURSOR_HEIGHT_WIDGH_RATIO, p.display_cols)
         IN  WideFold(T, Tail(ids),
                 IF WideGreater(terminal_size, acc.size)
                 THEN [size |-> terminal_size, id |-> Head(ids)]
                 ELSE acc)

\* C40: the pane new_pane chooses to split and the direction it splits it in,
\* computed in u16 as (rows * 4) * cols and rows * 4 > cols, are the ones computed
\* with unbounded integers, and the fold does not end on its initial pane-id 0 when
\* that id is not in the map
C40_SplitChoice ==
    (status = "running" /\ Ids(terminals) /= {})
    => LET ids == SortIds(Ids(terminals))
           chosen == LargestFold(terminals, ids, [size |-> 0, id |-> 0, ovf |-> FALSE]).id
           wide == WideFold(terminals, ids, [size |-> <<0, 0>>, id |-> 0]).id
       IN  /\ chosen \in Ids(terminals)
           /\ chosen = wide
           /\ LET p == terminals[chosen]
              IN  (Mul16(p.display_rows, CURSOR_HEIGHT_WIDGH_RATIO) > p.display_cols)
                     <=> (p.display_rows * CURSOR_HEIGHT_WIDGH_RATIO > p.display_cols)
====
